---- MODULE Spec2Model ----
(***************************************************************************)
(* Model of the social-feed system: the Redis feed mailbox (a ZSET per     *)
(* user), the fan-out worker that fills it from the new-posts topic, and    *)
(* the GET /feed pipeline that reads it.                                    *)
(*                                                                          *)
(* Three specifications share the variables:                                *)
(*   SpecMailbox  the mailbox primitives under concurrent clients           *)
(*   SpecFanout   the fan-out worker's consume loop                         *)
(*   SpecFeed     one GET /feed request and its dependencies                *)
(***************************************************************************)
EXTENDS Integers, Sequences, FiniteSets, TLC

(***************************************************************************)
(* Configuration.  The program's defaults are 500, 86400 and 10000; the     *)
(* model runs them scaled down so that a mailbox fills up and an author     *)
(* reaches the follower cap within a few steps.                             *)
(***************************************************************************)
redis_feed_max_size == 2

redis_feed_ttl == 2

fan_out_follower_cap == 3

\* feed.py MAX_AUTHOR_POSTS = 2 and MAX_CANDIDATES = 150, config.py
\* ranking_candidate_limit = 100 and feed_page_size = 20, scaled down.
MAX_AUTHOR_POSTS == 1

MAX_CANDIDATES == 3

ranking_candidate_limit == 2

feed_page_size == 2

\* config.py pinot_lookback_hours = 24 and the LIMIT 10000 of the impression
\* query, scaled down.
pinot_lookback_hours == 1

PINOT_ROW_LIMIT == 3

(***************************************************************************)
(* Bounds of the model.                                                     *)
(***************************************************************************)
\* Enough pushes to overflow one mailbox.
MaxPushes == redis_feed_max_size + 1

\* The API client's push_to_feed calls that can be in flight at once.
MaxApiPush == 2

Users == {"u1", "u2", "u3", "u4", "u5"}

\* The users whose mailboxes the clients of SpecMailbox address.
ActiveUsers == {"u1", "u2"}

\* PostIds are strings in the program; the model numbers them, and the
\* numeric order stands for the lexicographic order Redis uses on members
\* of equal score.
Posts == 1..(redis_feed_max_size + 1)

\* Scores are floats in the program; two values give every order of two scores.
Scores == {1, 2}

\* The length of the new-posts partition.
MaxEvents == 3

\* How often the worker process is restarted.
MaxRestarts == 1

\* How many calls of the worker to the relational store or Redis raise.
MaxFailures == 1

\* The GET /feed requests served one after the other, the POST
\* /feed/impressions requests, and the hours that pass meanwhile.
MaxRequests == 2

MaxRecords == 1

MaxClock == 2

\* A missing user_id and a missing post_id of an event (msg.get returns None).
NoUser == ""

NoPost == 0

VARIABLES
    \* ---- Redis ----
    mailbox,    \* [Users -> Seq([member, score])], the ZSET feed:{user_id} in rank order
    ttl,        \* [Users -> Int], the key's time to live; -1 when none is set
    \* ---- clients of the mailbox (SpecMailbox) ----
    apiPush,    \* [1..MaxApiPush -> record], the API client's push_to_feed calls in flight
    issued,     \* history: how many times each push (user, post, score) was issued
    npushes,    \* history: the number of pushes issued
    overlap,    \* history: the users on whose mailbox two pushes have overlapped
    lastRead,   \* the get_social_feed call that has just returned, and its result
    \* ---- fan-out worker (SpecFanout) ----
    follows,    \* [Users -> SUBSET Users], follows[a] = the followers of a
    topic,      \* the new-posts partition: Seq([post_id, user_id])
    clock,      \* the last reading of time.time()
    wpos,       \* the consumer's position: offset of the next message it yields
    committed,  \* the consumer group's committed offset
    worker,     \* the consume loop: [pc, off, score]
    pending,    \* the push_to_feed tasks created by gather and not finished
    done,       \* history: the finished consume cycles
    nwrites,    \* history: number of pushes applied to Redis by the worker
    fetched,    \* history: the offsets the consumer yielded, in order
    fanned,     \* history: the offsets for which gather created push tasks
    restarts,   \* number of worker restarts so far
    failures,   \* number of dependency errors the worker has met so far
    \* ---- GET /feed (SpecFeed) ----
    feed,       \* the request being served: its position, locals and response
    iv,         \* [Users -> BOOLEAN], whether Redis holds the key iv:{user_id}
    vindex,     \* the vector index: post ids by similarity to the viewer's vector
    seenStore,  \* the impression store: its rows [user_id, post_id, timestamp]
    impressions, \* the impressions topic: the events published, in order
    ingested,   \* how many events of the topic the impression store has ingested
    nrequests,  \* number of GET /feed requests that have been answered
    nrecords,   \* number of POST /feed/impressions requests so far
    \* ---- stage 1 of concurrent requests of one viewer (SpecVector) ----
    ivStore,    \* the vector stored under iv:{user_id}, NoVector when missing
    stage1,     \* the requests in stage 1: [pc, vector]
    \* ---- POST /posts and the new-posts topic (SpecPosts) ----
    postsTable, \* the committed rows of the posts table: a set of post ids
    creates,    \* the create_post requests: [pc], the post id is the index
    newPosts,   \* the new-posts topic: the post ids of the events, in order
    observed,   \* history: what a consumer saw, [post_id, persisted]
    \* ---- POST /posts/{id}/like of one post (SpecLikes) ----
    likesTable, \* the committed rows of the likes table for the post: the likers
    like_count, \* the committed like_count of the posts row
    likes,      \* the like_post requests: [pc, user_id, like_count, existing]
    \* ---- POST /feed/impressions ----
    recordStatus, \* the status of the last record_impressions response, 0 when none
    \* ---- embedding worker (SpecEmbed) ----
    embedder,   \* the consume loop: [pc, pos, off, failures]
    points,     \* the vector collection: the points [post_id, user_id]
    \* ---- POST /users/follow ----
    followStatus \* the status of the last follow_user response, 0 when none

mailboxVars == <<mailbox, ttl>>

clientVars == <<apiPush, issued, npushes, overlap, lastRead>>

fanoutVars == <<follows, topic, clock, wpos, committed, worker, pending, done, nwrites,
               fetched, fanned, restarts, failures>>

vectorVars == <<ivStore, stage1>>

postVars == <<postsTable, creates, newPosts, observed>>

likeVars == <<likesTable, like_count, likes>>

embedVars == <<embedder, points>>

restVars == <<postVars, likeVars, recordStatus, embedVars, followStatus>>

feedEnv == <<ingested, nrequests, nrecords, vectorVars, restVars>>

feedVars == <<feed, iv, vindex, seenStore, impressions, feedEnv>>

vars == <<mailboxVars, clientVars, fanoutVars, feedVars>>

(***************************************************************************)
(* Redis sorted-set commands, as the clients use them.  A ZSET is kept as   *)
(* the sequence of its entries in rank order: ascending score, members of   *)
(* equal score in ascending member order.                                   *)
(***************************************************************************)
Entry(p, s) == [member |-> p, score |-> s]

Less(e1, e2) ==
    \/ e1.score < e2.score
    \/ e1.score = e2.score /\ e1.member < e2.member

Members(z) == {z[i].member : i \in 1..Len(z)}

\* A member is held once.
Unique(z) == \A i, j \in 1..Len(z) : z[i].member = z[j].member => i = j

ScoreOf(z, p) == z[CHOOSE i \in 1..Len(z) : z[i].member = p].score

\* ZADD key {post_id: score} without upsert: a second entry for the member.
ZADD_noupsert(z, p, s) ==
    LET e == Entry(p, s)
    IN  SelectSeq(z, LAMBDA x : Less(x, e)) \o <<e>> \o
        SelectSeq(z, LAMBDA x : ~Less(x, e))

\* ZADD key {post_id: score}: insert the member, or move it to its new score.
ZADD(z, p, s) ==
    LET rest == SelectSeq(z, LAMBDA x : x.member # p)
        e    == Entry(p, s)
    IN  SelectSeq(rest, LAMBDA x : Less(x, e)) \o <<e>> \o
        SelectSeq(rest, LAMBDA x : ~Less(x, e))

\* Redis' index normalisation for a rank range: negative indices count from
\* the end; the result is the 1-based inclusive range, empty when lo > hi.
RangeLo(n, start) ==
    LET s0 == IF start < 0 THEN n + start ELSE start
    IN  (IF s0 < 0 THEN 0 ELSE s0) + 1

RangeHi(n, stop) ==
    LET e0 == IF stop < 0 THEN n + stop ELSE stop
    IN  (IF e0 >= n THEN n - 1 ELSE e0) + 1

\* ZREMRANGEBYRANK key start stop
ZREMRANGEBYRANK(z, start, stop) ==
    LET lo == RangeLo(Len(z), start)
        hi == RangeHi(Len(z), stop)
    IN  IF lo > hi \/ lo > Len(z) THEN z
        ELSE SubSeq(z, 1, lo - 1) \o SubSeq(z, hi + 1, Len(z))

\* ZREVRANGE key start stop: the members from the highest rank down.
ZREVRANGE(z, start, stop) ==
    LET n   == Len(z)
        lo  == RangeLo(n, start)
        hi  == RangeHi(n, stop)
    IN  IF lo > hi \/ lo > n THEN <<>>
        ELSE [i \in 1..(hi - lo + 1) |-> z[n - (lo + i - 1) + 1].member]

\* The trim takes the ranks from the top: the highest scores are evicted.
Trim_fromtop(z) == ZREMRANGEBYRANK(z, redis_feed_max_size, -1)

\* The trim with its stop rank off by one.
Trim_offbyone(z) == ZREMRANGEBYRANK(z, 0, -(redis_feed_max_size + 2))

\* The trim both push_to_feed implementations issue.
Trim(z) == ZREMRANGEBYRANK(z, 0, -(redis_feed_max_size + 1))

\* EXPIRE key seconds: only an existing key gets a time to live.
EXPIRE(z, old, seconds) == IF Len(z) = 0 THEN old ELSE seconds

\* key = f"feed:{user_id}": one key for all users.
FeedKey_shared(user_id) == "u1"

\* key = f"feed:{user_id}"
FeedKey(user_id) == user_id

(***************************************************************************)
(* Initial state: empty Redis, nothing in flight, an empty topic.           *)
(***************************************************************************)
IdlePush == [pc |-> "idle", user |-> "u1", post |-> NoPost, score |-> 0,
             pre |-> <<>>, alone |-> TRUE]

NoRead == [user |-> "u1", limit |-> 0, result |-> <<>>, interleaved |-> FALSE,
           before |-> <<>>, after |-> <<>>]

\* The follows table of the model: u1 has two followers (below the cap), u2
\* has exactly fan_out_follower_cap followers, u3 has more, u4 and u5 none.
FollowGraph ==
    [a \in Users |->
        CASE a = "u1" -> {"u4", "u5"}
          [] a = "u2" -> {"u1", "u4", "u5"}
          [] a = "u3" -> {"u1", "u2", "u4", "u5"}
          [] OTHER    -> {}]

\* The pushes a client of SpecMailbox can issue: (user_id, post_id, score).
PushOps == ActiveUsers \X Posts \X (Scores)

\* A user id with no row in the users table.
NoSuchUser == "u0"

IdleFeed ==
    [pc |-> "idle", user_id |-> NoSuchUser, status |-> 0, failed |-> {},
     interest_vector |-> "", social_ids |-> <<>>, discovery_ids |-> <<>>,
     candidates |-> <<>>, after_filter |-> 0, feature_source |-> "",
     nulls |-> FALSE, ranked |-> <<>>, posts |-> <<>>, served_ids |-> <<>>,
     raised |-> "", seen_post_ids |-> {}, kept |-> <<>>,
     query_time |-> 0, query_rows |-> 0, post_map |-> {}, post_features |-> <<>>,
     affinity_score |-> <<>>, affinity_error |-> ""]

\* The concurrent GET /feed requests of one viewer that SpecVector follows
\* through stage 1.
MaxViewRequests == 3

\* The interest vectors: the value random.uniform draws for a request's
\* vector is one of these.
Vectors == {1, 2}

NoVector == 0

IdleStage1 == [pc |-> "idle", vector |-> NoVector]

InitVectorIdle ==
    /\ ivStore = NoVector
    /\ stage1 = [r \in 1..MaxViewRequests |-> IdleStage1]

MaxCreates == 3

InitPostsIdle ==
    /\ postsTable = {}
    /\ creates = [s \in 1..MaxCreates |-> [pc |-> "idle"]]
    /\ newPosts = <<>>
    /\ observed = <<>>

MaxLikes == 3

IdleLike == [pc |-> "idle", user_id |-> NoUser, like_count |-> 0, existing |-> FALSE]

InitLikesIdle ==
    /\ likesTable = {}
    /\ like_count = 0
    /\ likes = [r \in 1..MaxLikes |-> IdleLike]

InitRestIdle ==
    /\ InitPostsIdle
    /\ InitLikesIdle
    /\ recordStatus = 0
    /\ embedder = [pc |-> "waiting", pos |-> 1, off |-> 0, failures |-> 0]
    /\ points = {}
    /\ followStatus = 0

InitFeedIdle ==
    /\ feed = IdleFeed
    /\ iv = [u \in Users |-> FALSE]
    /\ vindex = <<>>
    /\ seenStore = <<>>
    /\ impressions = <<>>
    /\ ingested = 0
    /\ nrequests = 0
    /\ nrecords = 0
    /\ InitVectorIdle
    /\ InitRestIdle

InitMailbox ==
    /\ mailbox = [u \in Users |-> <<>>]
    /\ ttl = [u \in Users |-> -1]

InitClients ==
    /\ apiPush = [i \in 1..MaxApiPush |-> IdlePush]
    /\ issued = [op \in PushOps |-> 0]
    /\ npushes = 0
    /\ overlap = {}
    /\ lastRead = NoRead

InitWorker(t) ==
    /\ follows = FollowGraph
    /\ topic = t
    /\ clock = 0
    /\ wpos = 1
    /\ committed = 1
    /\ worker = [pc |-> "waiting", off |-> 0, score |-> 0]
    /\ pending = {}
    /\ done = <<>>
    /\ nwrites = 0
    /\ fetched = <<>>
    /\ fanned = {}
    /\ restarts = 0
    /\ failures = 0

Init == InitMailbox /\ InitClients /\ InitWorker(<<>>) /\ InitFeedIdle

(***************************************************************************)
(* SpecMailbox: the two push_to_feed implementations and get_social_feed,   *)
(* called concurrently by any number of clients.                            *)
(***************************************************************************)
InFlightOn(u) == {i \in 1..MaxApiPush : apiPush[i].pc # "idle" /\ apiPush[i].user = u}

\* Another client's write reached user u's key: the API pushes in flight on
\* it are no longer the only writer since their ZADD.
Disturb(ap, u, except) ==
    [i \in 1..MaxApiPush |->
        IF i # except /\ ap[i].pc # "idle" /\ ap[i].user = u
        THEN [ap[i] EXCEPT !.alone = FALSE] ELSE ap[i]]

\* Fan-out worker's push_to_feed: ZADD, ZREMRANGEBYRANK and EXPIRE queued on
\* one pipeline (a MULTI/EXEC transaction) and executed as a unit.
PipelinePush(mb, tl, user_id, post_id, score) ==
    LET key == FeedKey(user_id)
        z   == Trim(ZADD(mb[key], post_id, score))
    IN  <<[mb EXCEPT ![key] = z],
          [tl EXCEPT ![key] = EXPIRE(z, @, redis_feed_ttl)]>>

WorkerPushToFeed(u, p, s) ==
    /\ npushes < MaxPushes
    /\ LET r == PipelinePush(mailbox, ttl, u, p, s)
       IN  mailbox' = r[1] /\ ttl' = r[2]
    /\ issued' = [issued EXCEPT ![<<u, p, s>>] = @ + 1]
    /\ npushes' = npushes + 1
    /\ overlap' = IF InFlightOn(u) # {} THEN overlap \cup {u} ELSE overlap
    /\ apiPush' = Disturb(apiPush, u, 0)
    /\ lastRead' = NoRead
    /\ UNCHANGED <<fanoutVars, feedVars>>

\* API client's push_to_feed, first await: r.zadd(key, {post_id: score})
ApiPushZadd(i, u, p, s) ==
    /\ apiPush[i].pc = "idle"
    /\ \A j \in 1..(i - 1) : apiPush[j].pc # "idle"
    /\ npushes < MaxPushes
    /\ mailbox' = [mailbox EXCEPT ![FeedKey(u)] = ZADD(@, p, s)]
    /\ apiPush' = [Disturb(apiPush, u, i) EXCEPT ![i] =
            [pc |-> "trim", user |-> u, post |-> p, score |-> s,
             pre |-> mailbox[FeedKey(u)], alone |-> InFlightOn(u) = {}]]
    /\ issued' = [issued EXCEPT ![<<u, p, s>>] = @ + 1]
    /\ npushes' = npushes + 1
    /\ overlap' = IF InFlightOn(u) # {} THEN overlap \cup {u} ELSE overlap
    /\ lastRead' = NoRead
    /\ UNCHANGED <<ttl, fanoutVars, feedVars>>

\* second await: r.zremrangebyrank(key, 0, -(redis_feed_max_size + 1))
ApiPushTrim(i) ==
    /\ apiPush[i].pc = "trim"
    /\ mailbox' = [mailbox EXCEPT ![FeedKey(apiPush[i].user)] = Trim(@)]
    /\ apiPush' = [apiPush EXCEPT ![i].pc = "expire"]
    /\ lastRead' = NoRead
    /\ UNCHANGED <<ttl, issued, npushes, overlap, fanoutVars, feedVars>>

\* third await: r.expire(key, redis_feed_ttl); the call returns
ApiPushExpire(i) ==
    /\ apiPush[i].pc = "expire"
    /\ ttl' = [ttl EXCEPT ![FeedKey(apiPush[i].user)] =
                  EXPIRE(mailbox[FeedKey(apiPush[i].user)], @, redis_feed_ttl)]
    /\ apiPush' = [apiPush EXCEPT ![i] = IdlePush]
    /\ lastRead' = NoRead
    /\ UNCHANGED <<mailbox, issued, npushes, overlap, fanoutVars, feedVars>>

\* get_social_feed(user_id, limit): r.zrevrange(key, 0, limit - 1)
Top(z, limit) == ZREVRANGE(z, 0, limit - 1)

GetSocialFeed(u, limit) ==
    /\ lastRead' =
        LET fl == {i \in InFlightOn(u) : apiPush[i].alone}
        IN  IF fl # {} /\ Cardinality(InFlightOn(u)) = 1
            THEN LET i == CHOOSE i \in fl : TRUE
                 IN  [user |-> u, limit |-> limit,
                      result |-> Top(mailbox[FeedKey(u)], limit),
                      interleaved |-> TRUE,
                      before |-> apiPush[i].pre,
                      after |-> Trim(ZADD(apiPush[i].pre, apiPush[i].post, apiPush[i].score))]
            ELSE [user |-> u, limit |-> limit,
                  result |-> Top(mailbox[FeedKey(u)], limit),
                  interleaved |-> FALSE,
                  before |-> mailbox[FeedKey(u)], after |-> mailbox[FeedKey(u)]]
    /\ UNCHANGED <<mailboxVars, apiPush, issued, npushes, overlap, fanoutVars, feedVars>>

\* The limits a caller passes: none, fewer than a full mailbox, a full
\* mailbox, more.
ReadLimits == {0, 1, redis_feed_max_size, redis_feed_max_size + 1}

NextMailbox ==
    \/ \E u \in ActiveUsers, p \in Posts, s \in Scores : WorkerPushToFeed(u, p, s)
    \/ \E i \in 1..MaxApiPush, u \in ActiveUsers, p \in Posts, s \in Scores :
            ApiPushZadd(i, u, p, s)
    \/ \E i \in 1..MaxApiPush : ApiPushTrim(i)
    \/ \E i \in 1..MaxApiPush : ApiPushExpire(i)
    \/ \E u \in ActiveUsers, limit \in ReadLimits : GetSocialFeed(u, limit)

SpecMailbox == Init /\ [][NextMailbox]_vars

(***************************************************************************)
(* SpecTtl: the pushes and reads of one user's mailbox while time passes.   *)
(* ttl[u] is the remaining lifetime of the key feed:u in hours, -1 for a    *)
(* key that is missing or has no expiry.                                    *)
(***************************************************************************)
\* An hour passes: Redis deletes the keys whose lifetime has run out.
Expire ==
    /\ clock < MaxClock
    /\ clock' = clock + 1
    /\ ttl' = [u \in Users |-> IF ttl[u] > 1 THEN ttl[u] - 1 ELSE -1]
    /\ mailbox' = [u \in Users |-> IF ttl[u] = 1 THEN <<>> ELSE mailbox[u]]
    /\ apiPush' = [i \in 1..MaxApiPush |->
                        IF apiPush[i].pc # "idle" /\ ttl[FeedKey(apiPush[i].user)] = 1
                        THEN [apiPush[i] EXCEPT !.alone = FALSE] ELSE apiPush[i]]
    /\ lastRead' = NoRead
    /\ UNCHANGED <<issued, npushes, overlap, feedVars, follows, topic, wpos, committed,
                   worker, pending, done, nwrites, fetched, fanned, restarts, failures>>

NextTtl ==
    \/ \E p \in Posts, s \in Scores : WorkerPushToFeed("u1", p, s)
    \/ \E i \in 1..MaxApiPush, p \in Posts, s \in Scores : ApiPushZadd(i, "u1", p, s)
    \/ \E i \in 1..MaxApiPush : ApiPushTrim(i)
    \/ \E i \in 1..MaxApiPush : ApiPushExpire(i)
    \/ GetSocialFeed("u1", redis_feed_max_size)
    \/ Expire

SpecTtl == Init /\ [][NextTtl]_vars

(***************************************************************************)
(* SpecFanout: the fan-out worker.  One consumer reads one partition of     *)
(* new-posts; for each message it looks the followers up and pushes the     *)
(* post to their mailboxes.                                                 *)
(***************************************************************************)
Event(p, a) == [post_id |-> p, user_id |-> a]

WellFormed(e) == e.post_id # NoPost /\ e.user_id # NoUser

\* The partition as the worker finds it: create_post gives every post a
\* fresh post_id and publish_new_post appends {post_id, user_id, content};
\* post ids are numbered in publish order here.  Other producers may have
\* appended malformed events.
Authors == {"u1", "u2", "u3", "u4"}

Topics ==
    {t \in [1..MaxEvents -> (Authors \cup {NoUser})] : TRUE}

TopicOf(t) ==
    [i \in 1..MaxEvents |-> IF t[i] = NoUser THEN Event(NoPost, "u1") ELSE Event(i, t[i])]

Min(a, b) == IF a < b THEN a ELSE b

\* get_followers: SELECT follower_id FROM follows WHERE followee_id = %s
\* LIMIT %s.  Without ORDER BY, any `cap` of the followers may come back.
get_followers(user_id, cap) ==
    {S \in SUBSET follows[user_id] :
        Cardinality(S) = Min(cap, Cardinality(follows[user_id]))}

\* if follower_count > settings.fan_out_follower_cap
IsCelebrity_gt(follower_count) == follower_count > fan_out_follower_cap

\* if follower_count >= settings.fan_out_follower_cap
IsCelebrity(follower_count) == follower_count >= fan_out_follower_cap

\* time.time() read by two successive cycles: the wall clock has advanced or
\* reads the same value again.
Ticks == {0, 1}

\* score = -time.time()
TimeScore_neg(t) == 0 - t

\* score = time.time()
TimeScore(t) == t

Finish(off, outcome, mb, nw) ==
    Append(done, [off |-> off, outcome |-> outcome, snap |-> mb, nw |-> nw])

\* async for msg in consumer: the consumer yields the next message and
\* advances its position; process_message returns at once when the event is
\* malformed.
Fetch ==
    /\ worker.pc = "waiting"
    /\ wpos <= Len(topic)
    /\ wpos' = wpos + 1
    /\ fetched' = Append(fetched, wpos)
    /\ IF WellFormed(topic[wpos])
       THEN /\ worker' = [pc |-> "lookup", off |-> wpos, score |-> 0]
            /\ done' = done
       ELSE /\ worker' = [pc |-> "waiting", off |-> wpos, score |-> 0]
            /\ done' = Finish(wpos, "malformed", mailbox, nwrites)
    /\ UNCHANGED <<mailboxVars, clientVars, feedVars, follows, topic, clock, committed,
                   pending, nwrites, fanned, restarts, failures>>

\* get_followers returned; the three branches of process_message.  The
\* fan-out branch reads the clock and starts one push_to_feed task per
\* follower under asyncio.gather.
Lookup(followers) ==
    /\ worker.pc = "lookup"
    /\ followers \in get_followers(topic[worker.off].user_id, fan_out_follower_cap)
    /\ IF Cardinality(followers) = 0
       THEN /\ done' = Finish(worker.off, "no_followers", mailbox, nwrites)
            /\ worker' = [worker EXCEPT !.pc = "waiting"]
            /\ UNCHANGED <<clock, pending, fanned>>
       ELSE IF IsCelebrity(Cardinality(followers))
       THEN /\ done' = Finish(worker.off, "celebrity", mailbox, nwrites)
            /\ worker' = [worker EXCEPT !.pc = "waiting"]
            /\ UNCHANGED <<clock, pending, fanned>>
       ELSE /\ \E tick \in Ticks : clock' = clock + tick
            /\ worker' = [worker EXCEPT !.pc = "gather", !.score = TimeScore(clock')]
            /\ pending' = pending \cup
                    {[off |-> worker.off, user |-> f, post |-> topic[worker.off].post_id,
                      score |-> TimeScore(clock')] : f \in followers}
            /\ fanned' = fanned \cup {worker.off}
            /\ done' = done
    /\ UNCHANGED <<mailboxVars, clientVars, feedVars, follows, topic, wpos, committed, nwrites,
                   fetched, restarts, failures>>

\* The exception of get_followers ends the consume loop.
LookupFail_stop ==
    /\ worker.pc = "lookup"
    /\ failures < MaxFailures
    /\ failures' = failures + 1
    /\ done' = Finish(worker.off, "error", mailbox, nwrites)
    /\ worker' = [worker EXCEPT !.pc = "stopped"]
    /\ UNCHANGED <<mailboxVars, clientVars, feedVars, follows, topic, clock, wpos, committed,
                   pending, nwrites, fetched, fanned, restarts>>

\* get_followers raised (relational store error): the exception leaves
\* process_message and is caught and logged by the consume loop.
LookupFail ==
    /\ worker.pc = "lookup"
    /\ failures < MaxFailures
    /\ failures' = failures + 1
    /\ done' = Finish(worker.off, "error", mailbox, nwrites)
    /\ worker' = [worker EXCEPT !.pc = "waiting"]
    /\ UNCHANGED <<mailboxVars, clientVars, feedVars, follows, topic, clock, wpos, committed,
                   pending, nwrites, fetched, fanned, restarts>>

\* The cycle the task belongs to is still awaiting its gather.
Awaited(t) ==
    /\ worker.pc = "gather" /\ worker.off = t.off /\ worker.score = t.score

\* One push_to_feed task executes its pipeline.  gather returns when the last
\* task of the cycle has succeeded.
PushOk(t) ==
    /\ t \in pending
    /\ LET r == PipelinePush(mailbox, ttl, t.user, t.post, t.score)
       IN  /\ mailbox' = r[1] /\ ttl' = r[2]
           /\ IF Awaited(t) /\ \A x \in pending \ {t} : ~Awaited(x)
              THEN /\ done' = Finish(t.off, "fanout", r[1], nwrites + 1)
                   /\ worker' = [worker EXCEPT !.pc = "waiting"]
              ELSE UNCHANGED <<done, worker>>
    /\ pending' = pending \ {t}
    /\ nwrites' = nwrites + 1
    /\ UNCHANGED <<clientVars, feedVars, follows, topic, clock, wpos, committed, fetched,
                   fanned, restarts, failures>>

\* One push_to_feed task raises (Redis error).  gather propagates the first
\* exception to process_message, which the consume loop catches; the other
\* tasks of the cycle are not cancelled and keep running.
PushFail(t) ==
    /\ t \in pending
    /\ failures < MaxFailures
    /\ failures' = failures + 1
    /\ pending' = pending \ {t}
    /\ IF Awaited(t)
       THEN /\ done' = Finish(t.off, "error", mailbox, nwrites)
            /\ worker' = [worker EXCEPT !.pc = "waiting"]
       ELSE UNCHANGED <<done, worker>>
    /\ UNCHANGED <<mailboxVars, clientVars, feedVars, follows, topic, clock, wpos, committed,
                   nwrites, fetched, fanned, restarts>>

\* AIOKafkaConsumer is created with a group_id and the default
\* enable_auto_commit: a background task commits the consumer's position,
\* whatever became of the messages it has yielded.
AutoCommit ==
    /\ committed # wpos
    /\ committed' = wpos
    /\ UNCHANGED <<mailboxVars, clientVars, feedVars, follows, topic, clock, wpos, worker,
                   pending, done, nwrites, fetched, fanned, restarts, failures>>

\* The worker process dies and is started again: its tasks are gone and the
\* new consumer resumes from the group's committed offset.
Restart ==
    /\ restarts < MaxRestarts
    /\ restarts' = restarts + 1
    /\ wpos' = committed
    /\ worker' = [pc |-> "waiting", off |-> 0, score |-> 0]
    /\ pending' = {}
    /\ UNCHANGED <<mailboxVars, clientVars, feedVars, follows, topic, clock, committed, done,
                   nwrites, fetched, fanned, failures>>

NextFanout ==
    \/ Fetch
    \/ \E followers \in SUBSET Users : Lookup(followers)
    \/ LookupFail
    \/ \E t \in pending : PushOk(t)
    \/ \E t \in pending : PushFail(t)
    \/ AutoCommit
    \/ Restart

InitFanout ==
    /\ InitMailbox /\ InitClients /\ InitFeedIdle
    /\ \E t \in Topics : InitWorker(TopicOf(t))

SpecFanout == InitFanout /\ [][NextFanout]_vars

\* The steps of the worker's own event loop: the consumer hands over a
\* message that is there, and a call the worker awaits returns or raises.
WorkerStep ==
    \/ Fetch
    \/ \E followers \in SUBSET Users : Lookup(followers)
    \/ LookupFail
    \/ \E t \in pending : PushOk(t)
    \/ \E t \in pending : PushFail(t)

\* Topics of two events of an author with followers, then events of an
\* author without followers and malformed events.
LiveTopics ==
    {t \in Topics : /\ \A i \in 1..2 : t[i] = "u1"
                    /\ \A i \in 3..MaxEvents : t[i] \in {"u4", NoUser}}

InitFanoutLive ==
    /\ InitMailbox /\ InitClients /\ InitFeedIdle
    /\ \E t \in LiveTopics : InitWorker(TopicOf(t))

\* The worker under the scheduling of its event loop: a step of the loop
\* that can be taken is taken.  Nothing obliges the background commit or a
\* restart to happen.
SpecFanoutLive == InitFanoutLive /\ [][NextFanout]_vars /\ WF_vars(WorkerStep)


(***************************************************************************)
(* GET /feed (routers/feed.py): one request, from the viewer check to the   *)
(* response and the impression task it leaves behind.  Every call to a      *)
(* dependency either returns or raises (an error or a timeout).  The Redis  *)
(* instance holds the mailbox, the interest vectors and the feature cache.  *)
(***************************************************************************)
\* user = await db.get(User, user_id)
UserExists(user_id) == user_id \in Users

Viewers == {"u1", NoSuchUser}

\* The posts a feed request can meet, and the posts table: post_id -> user_id
\* of the author.  Post 1 is the viewer's own, posts 2 and 3 share an author.
FeedPosts == 1..(MAX_CANDIDATES + 1)

PostAuthor(post_id) ==
    CASE post_id = 1 -> "u1"
      [] post_id = 4 -> "u4"
      [] OTHER       -> "u3"

\* The scores a ranking call or the heuristic can give a candidate.
RankScores == {0, 1}

Dependencies == {"mailbox", "vector", "impressions", "features", "ranking", "topic"}

\* s[:n]
Take(s, n) == SubSeq(s, 1, Min(n, Len(s)))

\* [c["post_id"] for c in cs], and the set of the entries of a list.
PostIds(cs) == [i \in 1..Len(cs) |-> cs[i].post_id]

Elems(s) == {s[i] : i \in 1..Len(s)}

NoDuplicates(s) == \A i, j \in 1..Len(s) : s[i] = s[j] => i = j

\* The ZSETs a mailbox can hold.
Sorted(z) == \A i, j \in 1..Len(z) : i < j => Less(z[i], z[j])

MailboxContents ==
    {z \in UNION {[1..k -> [member : FeedPosts, score : Scores]] : k \in 0..redis_feed_max_size} :
        Unique(z) /\ Sorted(z) /\ \A i \in 1..Len(z) : z[i].score = i}

\* The answers of the vector index to the viewer's query, best match first.
IndexContents ==
    {s \in UNION {[1..k -> FeedPosts] : k \in 0..ranking_candidate_limit} : NoDuplicates(s)}

\* client.search(query_vector, limit, query_filter = must_not user_id)
search_similar_posts(index, limit, exclude_user_id) ==
    Take(SelectSeq(index, LAMBDA p : PostAuthor(p) # exclude_user_id), limit)

\* Merge with source tag; dedup keeping first occurrence.
RECURSIVE Merge(_, _, _)
Merge(ids, source, acc) ==
    IF ids = <<>> THEN acc
    ELSE LET pid == Head(ids)
         IN  Merge(Tail(ids), source,
                   IF \E i \in 1..Len(acc) : acc[i].post_id = pid
                   THEN acc
                   ELSE Append(acc, [post_id |-> pid, source |-> source]))

\* The discovery list is walked first.
MergeCandidates_discoveryfirst(social_ids, discovery_ids) ==
    Merge(social_ids, "social", Merge(discovery_ids, "discovery", <<>>))

MergeCandidates(social_ids, discovery_ids) ==
    Merge(discovery_ids, "discovery", Merge(social_ids, "social", <<>>))

\* time.time() in seconds; the clock counts hours.
TimeTime(c) == c * 3600

\* ts = int(time.time() * 1000)
ImpressionTs(c) == TimeTime(c) * 1000

\* cutoff_ms = int((time.time() - hours * 3600) * 1000)
CutoffMs(c, hours) == (TimeTime(c) - hours * 3600) * 1000

Impression(user_id, post_id, ts) ==
    [user_id |-> user_id, post_id |-> post_id, timestamp |-> ts]

\* WHERE user_id = '{user_id}' AND timestamp >= {cutoff_ms}
MatchingRows(rows, user_id, cutoff_ms) ==
    {i \in 1..Len(rows) : rows[i].user_id = user_id /\ rows[i].timestamp >= cutoff_ms}

\* LIMIT n with no ORDER BY: the store returns any n of the matching rows.
LimitRows(match, n) ==
    IF Cardinality(match) <= n THEN {match}
    ELSE {I \in SUBSET match : Cardinality(I) = n}

\* The ways the impression query goes wrong: no connection, a timeout, a
\* non-2xx status, a body that is not the expected JSON.
PinotErrors == {"connect", "timeout", "status", "malformed"}

\* The error is not caught for what it is: the rows are returned all the same.
get_seen_post_ids_noexcept(rows, user_id, now, outcome) ==
    {{rows[i].post_id : i \in I} :
        I \in LimitRows(MatchingRows(rows, user_id, CutoffMs(now, pinot_lookback_hours)),
                        PINOT_ROW_LIMIT)}

\* The sets get_seen_post_ids can return: the post ids of the returned rows,
\* and the empty set when anything inside its try block raises.
get_seen_post_ids(rows, user_id, now, outcome) ==
    IF outcome = "ok"
    THEN {{rows[i].post_id : i \in I} :
            I \in LimitRows(MatchingRows(rows, user_id, CutoffMs(now, pinot_lookback_hours)),
                            PINOT_ROW_LIMIT)}
    ELSE {{}}

\* The test is the wrong way round: the seen candidates are kept.
ImpressionFilter_seenonly(candidates, seen_post_ids) ==
    SelectSeq(candidates, LAMBDA c : c.post_id \in seen_post_ids)

\* No candidate is removed.
ImpressionFilter_off(candidates, seen_post_ids) == candidates

\* candidates = [c for c in candidates if c["post_id"] not in seen_post_ids]
ImpressionFilter(candidates, seen_post_ids) ==
    SelectSeq(candidates, LAMBDA c : c.post_id \notin seen_post_ids)

\* c["rank_score"] = ... for each candidate
WithScores(candidates, sc) ==
    [i \in 1..Len(candidates) |->
        [post_id |-> candidates[i].post_id, source |-> candidates[i].source,
         rank_score |-> sc[candidates[i].post_id]]]

\* reverse = True is left out: the lowest score comes first.
RECURSIVE SortByRankScore_asc(_)
SortByRankScore_asc(cs) ==
    IF cs = <<>> THEN <<>>
    ELSE LET c      == cs[Len(cs)]
             sorted == SortByRankScore_asc(SubSeq(cs, 1, Len(cs) - 1))
             k      == Cardinality({i \in 1..Len(sorted) : sorted[i].rank_score <= c.rank_score})
         IN  SubSeq(sorted, 1, k) \o <<c>> \o SubSeq(sorted, k + 1, Len(sorted))

\* candidates.sort(key = rank_score, reverse = True): a stable sort, equal
\* scores keep their order.
RECURSIVE SortByRankScore(_)
SortByRankScore(cs) ==
    IF cs = <<>> THEN <<>>
    ELSE LET c      == cs[Len(cs)]
             sorted == SortByRankScore(SubSeq(cs, 1, Len(cs) - 1))
             k      == Cardinality({i \in 1..Len(sorted) : sorted[i].rank_score >= c.rank_score})
         IN  SubSeq(sorted, 1, k) \o <<c>> \o SubSeq(sorted, k + 1, Len(sorted))

\* The author test is left out of the loop.
RECURSIVE BuildPage_nocap(_, _, _)
BuildPage_nocap(top, post_map, acc) ==
    IF top = <<>> \/ Len(acc) >= feed_page_size THEN acc
    ELSE LET c == Head(top)
         IN  IF c.post_id \notin post_map
             THEN BuildPage_nocap(Tail(top), post_map, acc)
             ELSE BuildPage_nocap(Tail(top), post_map, Append(acc, c))

\* The loop does not stop at a full page.
RECURSIVE BuildPage_nolimit(_, _, _)
BuildPage_nolimit(top, post_map, acc) ==
    IF top = <<>> THEN acc
    ELSE LET c == Head(top)
         IN  IF c.post_id \notin post_map
             THEN BuildPage_nolimit(Tail(top), post_map, acc)
             ELSE IF Cardinality({i \in 1..Len(acc) :
                        PostAuthor(acc[i].post_id) = PostAuthor(c.post_id)}) >= MAX_AUTHOR_POSTS
             THEN BuildPage_nolimit(Tail(top), post_map, acc)
             ELSE BuildPage_nolimit(Tail(top), post_map, Append(acc, c))

\* The loop serves a post whether or not its row was found.
RECURSIVE BuildPage_noskip(_, _, _)
BuildPage_noskip(top, post_map, acc) ==
    IF top = <<>> \/ Len(acc) >= feed_page_size THEN acc
    ELSE LET c == Head(top)
         IN  IF Cardinality({i \in 1..Len(acc) :
                        PostAuthor(acc[i].post_id) = PostAuthor(c.post_id)}) >= MAX_AUTHOR_POSTS
             THEN BuildPage_noskip(Tail(top), post_map, acc)
             ELSE BuildPage_noskip(Tail(top), post_map, Append(acc, c))

\* The loop over top_ids: stop at a full page, skip a post with no row and a
\* post whose author already has MAX_AUTHOR_POSTS posts on the page.
RECURSIVE BuildPage(_, _, _)
BuildPage(top, post_map, acc) ==
    IF top = <<>> \/ Len(acc) >= feed_page_size THEN acc
    ELSE LET c == Head(top)
         IN  IF c.post_id \notin post_map
             THEN BuildPage(Tail(top), post_map, acc)
             ELSE IF Cardinality({i \in 1..Len(acc) :
                        PostAuthor(acc[i].post_id) = PostAuthor(c.post_id)}) >= MAX_AUTHOR_POSTS
             THEN BuildPage(Tail(top), post_map, acc)
             ELSE BuildPage(Tail(top), post_map, Append(acc, c))

\* An exception leaves get_feed: the framework answers 500.
Raise(dep) ==
    feed' = [feed EXCEPT !.pc = "done", !.status = 500, !.failed = @ \cup {dep},
                         !.raised = feed.pc]

NoFeedEffect == UNCHANGED <<mailboxVars, clientVars, fanoutVars>>

\* The users row is looked up after the interest vector has been created.
StartRequest_latecheck(user_id) ==
    /\ feed.pc = "idle"
    /\ IF UserExists(user_id)
       THEN feed' = [feed EXCEPT !.pc = "vector", !.user_id = user_id]
       ELSE feed' = [feed EXCEPT !.pc = "done", !.user_id = user_id, !.status = 404,
                                 !.interest_vector = "random"]
    /\ UNCHANGED <<iv, vindex, seenStore, impressions, feedEnv>>
    /\ NoFeedEffect

\* The request arrives; a viewer without a users row gets 404.
StartRequest(user_id) ==
    /\ feed.pc = "idle"
    /\ IF UserExists(user_id)
       THEN feed' = [feed EXCEPT !.pc = "vector", !.user_id = user_id]
       ELSE feed' = [feed EXCEPT !.pc = "done", !.user_id = user_id, !.status = 404]
    /\ UNCHANGED <<iv, vindex, seenStore, impressions, feedEnv>>
    /\ NoFeedEffect

\* get_interest_vector, and set_interest_vector of a random vector when the
\* key is missing.
InterestVector ==
    /\ feed.pc = "vector"
    /\ feed' = [feed EXCEPT !.pc = "retrieve",
                            !.interest_vector = IF iv[feed.user_id] THEN "stored" ELSE "random"]
    /\ iv' = [iv EXCEPT ![feed.user_id] = TRUE]
    /\ UNCHANGED <<vindex, seenStore, impressions, feedEnv>>
    /\ NoFeedEffect

\* Redis raises in get_interest_vector or set_interest_vector.
InterestVectorFail ==
    /\ feed.pc = "vector"
    /\ Raise("mailbox")
    /\ UNCHANGED <<iv, vindex, seenStore, impressions, feedEnv>>
    /\ NoFeedEffect

\* asyncio.gather(get_social_feed, search_similar_posts) returns, and the two
\* lists are merged.  The interest vector is not used after the search.
Retrieve ==
    /\ feed.pc = "retrieve"
    /\ LET social_ids    == Top(mailbox[FeedKey(feed.user_id)], ranking_candidate_limit)
           discovery_ids == search_similar_posts(vindex, ranking_candidate_limit, feed.user_id)
       IN  feed' = [feed EXCEPT !.pc = "filter",
                                !.interest_vector = "",
                                !.social_ids = social_ids,
                                !.discovery_ids = discovery_ids,
                                !.candidates = MergeCandidates(social_ids, discovery_ids)]
    /\ UNCHANGED <<iv, vindex, seenStore, impressions, feedEnv>>
    /\ NoFeedEffect

\* One of the two gathered calls raises: gather re-raises it.
RetrieveFail(dep) ==
    /\ feed.pc = "retrieve"
    /\ dep \in {"mailbox", "vector"}
    /\ Raise(dep)
    /\ UNCHANGED <<iv, vindex, seenStore, impressions, feedEnv>>
    /\ NoFeedEffect

\* The cap keeps the last MAX_CANDIDATES of the filtered list.
CapCandidates_tail(kept) ==
    IF Len(kept) <= MAX_CANDIDATES THEN kept
    ELSE SubSeq(kept, Len(kept) - MAX_CANDIDATES + 1, Len(kept))

\* candidates = candidates[:MAX_CANDIDATES]
CapCandidates(kept) == Take(kept, MAX_CANDIDATES)

\* Stage 2 with the seen set get_seen_post_ids returned, then the cap.
Discount(seen_post_ids, failed) ==
    /\ feed.pc = "filter"
    /\ LET kept == ImpressionFilter(feed.candidates, seen_post_ids)
       IN  feed' = [feed EXCEPT !.pc = "features",
                                !.failed = @ \cup failed,
                                !.seen_post_ids = seen_post_ids,
                                !.query_time = clock,
                                !.query_rows = Len(seenStore),
                                !.kept = kept,
                                !.after_filter = Len(kept),
                                !.candidates = CapCandidates(kept)]
    /\ UNCHANGED <<iv, vindex, seenStore, impressions, feedEnv>>
    /\ NoFeedEffect

\* get_seen_post_ids answers from the impression store.
ImpressionDiscount ==
    \E seen \in get_seen_post_ids(seenStore, feed.user_id, clock, "ok") : Discount(seen, {})

\* The impression query fails: get_seen_post_ids catches the exception.
ImpressionDiscountDegraded(error) ==
    /\ error \in PinotErrors
    /\ \E seen \in get_seen_post_ids(seenStore, feed.user_id, clock, error) :
            Discount(seen, {"impressions"})

\* Only the candidates with a non-empty feature map get a post_features key.
AttachFeatures_nonempty(candidates, post_feature_map) ==
    [p \in {q \in Elems(PostIds(candidates)) :
                q \in DOMAIN post_feature_map /\ post_feature_map[q] # "empty"} |->
        post_feature_map[p]]

\* for c in candidates: c["post_features"] = post_feature_map.get(post_id, {})
AttachFeatures(candidates, post_feature_map) ==
    [p \in Elems(PostIds(candidates)) |->
        IF p \in DOMAIN post_feature_map THEN post_feature_map[p] ELSE "empty"]

\* The authors of the posts table.
FeedAuthors == {PostAuthor(p) : p \in FeedPosts}

\* pf["affinity_score"] = affinity_map.get(aid, 0.0) if aid else 0.0, for
\* every candidate; a score of the map is 1 here.
AttachAffinity(candidates, affinity_map) ==
    [p \in Elems(PostIds(candidates)) |-> IF PostAuthor(p) \in affinity_map THEN 1 ELSE 0]

\* The ways the affinity call goes wrong that get_affinity_features catches
\* (inside its try: no connection, a timeout, a non-2xx status, a body that
\* is not JSON), and the one it does not: a JSON body without the expected
\* fields, read after the try.
AffinityCaught == {"connect", "timeout", "status", "unparsable"}

AffinityErrors == AffinityCaught \cup {"malformed"}

\* get_ranking_features and get_affinity_features return: post_features has
\* a map for every candidate id, affinity_map a score for some of the
\* authors.  A feature the store has no value for comes back as None (nulls).
FeastFeatures(nulls, affinity_map) ==
    /\ feed.pc = "features"
    /\ nulls => feed.candidates # <<>>
    /\ affinity_map \subseteq {PostAuthor(p) : p \in Elems(PostIds(feed.candidates))}
    /\ feed' = [feed EXCEPT !.pc = "rank", !.feature_source = "feast", !.nulls = nulls,
                            !.affinity_score = AttachAffinity(feed.candidates, affinity_map),
                            !.post_features =
                                AttachFeatures(feed.candidates,
                                    [p \in Elems(PostIds(feed.candidates)) |-> "features"])]
    /\ UNCHANGED <<iv, vindex, seenStore, impressions, feedEnv>>
    /\ NoFeedEffect

\* get_ranking_features returns and the affinity call (made when there are
\* authors) goes wrong.  A caught error gives the empty affinity_map; the
\* other one leaves get_affinity_features inside the handler's try block,
\* whose except branch is the fallback.
FeastAffinityFail(nulls, error) ==
    /\ feed.pc = "features"
    /\ feed.candidates # <<>>
    /\ IF error \in AffinityCaught
       THEN feed' = [feed EXCEPT !.pc = "rank", !.feature_source = "feast",
                                 !.nulls = nulls,
                                 !.affinity_error = error,
                                 !.affinity_score = AttachAffinity(feed.candidates, {}),
                                 !.post_features =
                                     AttachFeatures(feed.candidates,
                                         [p \in Elems(PostIds(feed.candidates)) |->
                                             "features"])]
       ELSE /\ ~nulls
            /\ feed' = [feed EXCEPT !.pc = "fallback", !.affinity_error = error,
                                    !.failed = @ \cup {"features"}]
    /\ UNCHANGED <<iv, vindex, seenStore, impressions, feedEnv>>
    /\ NoFeedEffect

\* get_ranking_features raises (it calls the store only when there are
\* candidates): the handler falls back to the Redis feature cache.
FeastFail ==
    /\ feed.pc = "features"
    /\ feed.candidates # <<>>
    /\ feed' = [feed EXCEPT !.pc = "fallback", !.failed = @ \cup {"features"}]
    /\ UNCHANGED <<iv, vindex, seenStore, impressions, feedEnv>>
    /\ NoFeedEffect

\* The fallback is not recorded: the source stays "feast".
RedisFeatures_feast(cached) ==
    /\ feed.pc = "fallback"
    /\ cached \subseteq Elems(PostIds(feed.candidates))
    /\ feed' = [feed EXCEPT !.pc = "rank", !.feature_source = "feast",
                            !.affinity_error = "",
                            !.post_features =
                                AttachFeatures(feed.candidates,
                                    [p \in Elems(PostIds(feed.candidates)) |->
                                        IF p \in cached THEN "features" ELSE "empty"])]
    /\ UNCHANGED <<iv, vindex, seenStore, impressions, feedEnv>>
    /\ NoFeedEffect

\* gather(get_user_features, get_post_features) returns: a map for every
\* candidate id, empty for a post whose pf: hash is not cached.
RedisFeatures(cached) ==
    /\ feed.pc = "fallback"
    /\ cached \subseteq Elems(PostIds(feed.candidates))
    /\ feed' = [feed EXCEPT !.pc = "rank", !.feature_source = "redis-fallback",
                            !.affinity_error = "",
                            !.post_features =
                                AttachFeatures(feed.candidates,
                                    [p \in Elems(PostIds(feed.candidates)) |->
                                        IF p \in cached THEN "features" ELSE "empty"])]
    /\ UNCHANGED <<iv, vindex, seenStore, impressions, feedEnv>>
    /\ NoFeedEffect

\* Redis raises inside the except branch: nothing catches it.
RedisFeaturesFail ==
    /\ feed.pc = "fallback"
    /\ Raise("mailbox")
    /\ UNCHANGED <<iv, vindex, seenStore, impressions, feedEnv>>
    /\ NoFeedEffect

\* score_candidates: no call when there are no candidates; otherwise the
\* scores of the ranking service, then the sort.  The features are not used
\* after the ranking.
Rank(sc) ==
    /\ feed.pc = "rank"
    /\ feed.candidates = <<>> => sc = [p \in FeedPosts |-> 0]
    /\ feed' = [feed EXCEPT !.pc = "hydrate",
                            !.nulls = FALSE,
                            !.post_features = <<>>,
                            !.affinity_score = <<>>,
                            !.affinity_error = "",
                            !.ranked = SortByRankScore(WithScores(feed.candidates, sc))]
    /\ UNCHANGED <<iv, vindex, seenStore, impressions, feedEnv>>
    /\ NoFeedEffect

\* The ranking call raises: _apply_heuristic_scores computes the scores from
\* the post features, and raises a TypeError on a feature that is None.
RankHeuristic(sc) ==
    /\ feed.pc = "rank"
    /\ feed.candidates # <<>>
    /\ IF feed.nulls
       THEN Raise("ranking")
       ELSE feed' = [feed EXCEPT !.pc = "hydrate",
                                 !.failed = @ \cup {"ranking"},
                                 !.post_features = <<>>,
                                 !.affinity_score = <<>>,
                                 !.affinity_error = "",
                                 !.ranked = SortByRankScore(WithScores(feed.candidates, sc))]
    /\ UNCHANGED <<iv, vindex, seenStore, impressions, feedEnv>>
    /\ NoFeedEffect

\* Every ranked candidate is looked up and walked.
TopRanked_all(ranked) == ranked

\* top_ids = [c["post_id"] for c in ranked[: feed_page_size * 3]]
TopRanked(ranked) == Take(ranked, feed_page_size * 3)

\* Stage 4: the rows of the top posts are read (post_map), the page is built
\* and the response is returned; the impression task is created when a post
\* is served.
Hydrate(post_map) ==
    /\ feed.pc = "hydrate"
    /\ LET top   == TopRanked(feed.ranked)
           posts == BuildPage(top, post_map, <<>>)
       IN  /\ post_map \subseteq {top[i].post_id : i \in 1..Len(top)}
           /\ feed' = [feed EXCEPT !.pc = IF posts = <<>> THEN "done" ELSE "publish",
                                   !.status = 200,
                                   !.post_map = post_map,
                                   !.posts = posts,
                                   !.served_ids = [i \in 1..Len(posts) |-> posts[i].post_id]]
    /\ UNCHANGED <<iv, vindex, seenStore, impressions, feedEnv>>
    /\ NoFeedEffect

\* The handler awaits publish_impressions: a send that raises fails the
\* request.
PublishImpressions_awaited(sent) ==
    /\ feed.pc = "publish"
    /\ sent \in 0..Len(feed.served_ids)
    /\ impressions' = impressions \o
            [i \in 1..sent |->
                Impression(feed.user_id, feed.served_ids[i], ImpressionTs(clock))]
    /\ IF sent < Len(feed.served_ids)
       THEN feed' = [feed EXCEPT !.pc = "done", !.status = 500, !.posts = <<>>,
                                 !.failed = @ \cup {"topic"}, !.raised = "publish"]
       ELSE feed' = [feed EXCEPT !.pc = "done"]
    /\ UNCHANGED <<iv, vindex, seenStore, feedEnv>>
    /\ NoFeedEffect

\* The publish_impressions task sends one event per served post; a send that
\* raises ends the task with the first sent events published.
PublishImpressions(sent) ==
    /\ feed.pc = "publish"
    /\ sent \in 0..Len(feed.served_ids)
    /\ impressions' = impressions \o
            [i \in 1..sent |->
                Impression(feed.user_id, feed.served_ids[i], ImpressionTs(clock))]
    /\ feed' = [feed EXCEPT !.pc = "done",
                            !.failed = IF sent < Len(feed.served_ids)
                                       THEN @ \cup {"topic"} ELSE @]
    /\ UNCHANGED <<iv, vindex, seenStore, feedEnv>>
    /\ NoFeedEffect

NextFeed ==
    \/ \E user_id \in Viewers : StartRequest(user_id)
    \/ InterestVector
    \/ InterestVectorFail
    \/ Retrieve
    \/ \E dep \in Dependencies : RetrieveFail(dep)
    \/ ImpressionDiscount
    \/ \E error \in PinotErrors : ImpressionDiscountDegraded(error)
    \/ \E nulls \in BOOLEAN, affinity_map \in SUBSET FeedAuthors :
            FeastFeatures(nulls, affinity_map)
    \/ \E nulls \in BOOLEAN, error \in AffinityErrors : FeastAffinityFail(nulls, error)
    \/ FeastFail
    \/ \E cached \in SUBSET FeedPosts : RedisFeatures(cached)
    \/ RedisFeaturesFail
    \/ \E sc \in [FeedPosts -> RankScores] : Rank(sc)
    \/ \E sc \in [FeedPosts -> RankScores] : RankHeuristic(sc)
    \/ \E post_map \in SUBSET FeedPosts : Hydrate(post_map)
    \/ \E sent \in 0..feed_page_size : PublishImpressions(sent)

\* The impression store at the start: empty, or one fresh row of the viewer.
SeenContents ==
    {<<>>} \cup {<<Impression("u1", p, ImpressionTs(0))>> : p \in FeedPosts}

\* The stores as the request finds them: the viewer's mailbox, interest
\* vector, the index and the impression store hold any content.
InitFeed ==
    /\ \E z \in MailboxContents : mailbox = [u \in Users |-> IF u = "u1" THEN z ELSE <<>>]
    /\ ttl = [u \in Users |-> IF mailbox[u] = <<>> THEN -1 ELSE redis_feed_ttl]
    /\ InitClients
    /\ InitWorker(<<>>)
    /\ feed = IdleFeed
    /\ iv \in [Users -> BOOLEAN] /\ \A u \in Users \ {"u1"} : ~iv[u]
    /\ vindex \in IndexContents
    /\ seenStore \in SeenContents
    /\ impressions = <<>>
    /\ ingested = 0
    /\ nrequests = 0
    /\ nrecords = 0
    /\ InitVectorIdle
    /\ InitRestIdle

SpecFeed == InitFeed /\ [][NextFeed]_vars

(***************************************************************************)
(* The impression round trip: requests of one viewer one after the other,   *)
(* the POST /feed/impressions endpoint, the impression store ingesting the  *)
(* impressions topic, and time passing.                                     *)
(***************************************************************************)
\* The response has been sent and the impression task has ended; the next
\* GET /feed arrives.
NextRequest ==
    /\ feed.pc = "done"
    /\ nrequests < MaxRequests - 1
    /\ nrequests' = nrequests + 1
    /\ feed' = IdleFeed
    /\ UNCHANGED <<iv, vindex, seenStore, impressions, ingested, nrecords, vectorVars, restVars>>
    /\ NoFeedEffect

\* The post id lists a client sends to POST /feed/impressions.
RecordLists == UNION {[1..k -> {2}] : k \in 1..2}

\* POST /feed/impressions: the handler awaits publish_impressions, which
\* sends one event per post id; a send that raises ends it with the first
\* events published, and the exception leaves the handler (500).  Otherwise
\* the response is the declared 204.
RecordImpressions(user_id, post_ids, sent) ==
    /\ nrecords < MaxRecords
    /\ nrecords' = nrecords + 1
    /\ sent \in 0..Len(post_ids)
    /\ impressions' = impressions \o
            [i \in 1..sent |-> Impression(user_id, post_ids[i], ImpressionTs(clock))]
    /\ recordStatus' = IF sent < Len(post_ids) THEN 500 ELSE 204
    /\ UNCHANGED <<feed, iv, vindex, seenStore, ingested, nrequests, vectorVars,
                   postVars, likeVars, embedVars, followStatus>>
    /\ NoFeedEffect

\* The impression store ingests the next event of the topic as a row.
Ingest ==
    /\ ingested < Len(impressions)
    /\ ingested' = ingested + 1
    /\ seenStore' = Append(seenStore, impressions[ingested + 1])
    /\ UNCHANGED <<feed, iv, vindex, impressions, nrequests, nrecords, vectorVars, restVars>>
    /\ NoFeedEffect

\* An hour passes.
Tick ==
    /\ clock < MaxClock
    /\ clock' = clock + 1
    /\ UNCHANGED <<mailboxVars, clientVars, feedVars, follows, topic, wpos, committed,
                   worker, pending, done, nwrites, fetched, fanned, restarts, failures>>

NextRoundTrip ==
    \/ NextFeed
    \/ NextRequest
    \/ \E user_id \in {"u1"}, post_ids \in RecordLists, sent \in 0..2 :
            RecordImpressions(user_id, post_ids, sent)
    \/ Ingest
    \/ Tick

\* The viewer follows two authors whose posts 2 and 4 are in the mailbox; the
\* index has no match and the impression store is empty.
InitRoundTrip ==
    /\ mailbox = [u \in Users |-> IF u = "u1" THEN <<Entry(2, 1), Entry(4, 2)>> ELSE <<>>]
    /\ ttl = [u \in Users |-> IF u = "u1" THEN redis_feed_ttl ELSE -1]
    /\ InitClients
    /\ InitWorker(<<>>)
    /\ feed = IdleFeed
    /\ iv = [u \in Users |-> u = "u1"]
    /\ vindex = <<>>
    /\ seenStore = <<>>
    /\ impressions = <<>>
    /\ ingested = 0
    /\ nrequests = 0
    /\ nrecords = 0
    /\ InitVectorIdle
    /\ InitRestIdle

SpecRoundTrip == InitRoundTrip /\ [][NextRoundTrip]_vars

(***************************************************************************)
(* Stage 3 scoring and stage 4 over a candidate list longer than the slice  *)
(* of feed_page_size * 3 ids that stage 4 reads.  In the code the list has  *)
(* up to MAX_CANDIDATES = 150 entries and the slice 60; the scaled          *)
(* constants of the whole pipeline keep the list inside the slice, so the   *)
(* two stages are also run from the candidate lists below.                  *)
(***************************************************************************)
\* The posts of these lists: post 4 of one author, the others (2, 3, 5, ...)
\* of another, one more post than the slice holds.
PagePosts == 2..(feed_page_size * 3 + 2)

PageList == <<2, 3, 5, 6, 7, 8, 4>>

\* The candidates stage 3 has fetched the features of: the list above or a
\* shorter one.
PageCandidates ==
    {[i \in 1..n |-> [post_id |-> PageList[i], source |-> "social"]] :
        n \in (feed_page_size * 3 - 1)..Len(PageList)}

InitPage ==
    /\ InitMailbox
    /\ InitClients
    /\ InitWorker(<<>>)
    /\ \E cs \in PageCandidates :
            feed = [IdleFeed EXCEPT !.pc = "rank", !.user_id = "u1",
                                    !.feature_source = "feast",
                                    !.post_features =
                                        [p \in Elems(PostIds(cs)) |-> "features"],
                                    !.social_ids = [i \in 1..Len(cs) |-> cs[i].post_id],
                                    !.kept = cs, !.after_filter = Len(cs),
                                    !.candidates = cs]
    /\ iv = [u \in Users |-> u = "u1"]
    /\ vindex = <<>>
    /\ seenStore = <<>>
    /\ impressions = <<>>
    /\ ingested = 0
    /\ nrequests = 0
    /\ nrecords = 0
    /\ InitVectorIdle
    /\ InitRestIdle

NextPage ==
    \/ \E sc \in [PagePosts -> RankScores] : Rank(sc)
    \/ \E post_map \in SUBSET PagePosts : Hydrate(post_map)
    \/ \E sent \in 0..feed_page_size : PublishImpressions(sent)

SpecPage == InitPage /\ [][NextPage]_vars

(***************************************************************************)
(* SpecVector: stage 1 of several GET /feed requests of one known viewer    *)
(* that run concurrently, each await a step of its own.  ivStore is the     *)
(* value under the viewer's key iv:{user_id} (iv above only says whether    *)
(* the key exists).                                                         *)
(***************************************************************************)
NoVectorEffect ==
    UNCHANGED <<mailboxVars, clientVars, fanoutVars, feed, iv, vindex, seenStore,
                impressions, ingested, nrequests, nrecords, restVars>>

\* interest_vector = await get_interest_vector(user_id); when it is None the
\* request draws a random vector.
GetInterestVector(r, random) ==
    /\ stage1[r].pc = "idle"
    /\ stage1' = [stage1 EXCEPT ![r] =
            IF ivStore # NoVector
            THEN [pc |-> "search", vector |-> ivStore]
            ELSE [pc |-> "set", vector |-> random]]
    /\ UNCHANGED ivStore
    /\ NoVectorEffect

\* await set_interest_vector(user_id, interest_vector): r.set(key, json, ex)
SetInterestVector(r) ==
    /\ stage1[r].pc = "set"
    /\ ivStore' = stage1[r].vector
    /\ stage1' = [stage1 EXCEPT ![r].pc = "search"]
    /\ NoVectorEffect

\* search_similar_posts(interest_vector, ...) inside the gather: stage 1 ends.
DiscoverySearch(r) ==
    /\ stage1[r].pc = "search"
    /\ stage1' = [stage1 EXCEPT ![r].pc = "done"]
    /\ UNCHANGED ivStore
    /\ NoVectorEffect

NextVector ==
    \/ \E r \in 1..MaxViewRequests, random \in Vectors : GetInterestVector(r, random)
    \/ \E r \in 1..MaxViewRequests : SetInterestVector(r)
    \/ \E r \in 1..MaxViewRequests : DiscoverySearch(r)

\* The viewer's key holds a vector or is missing when the requests arrive.
InitVector ==
    /\ InitMailbox
    /\ InitClients
    /\ InitWorker(<<>>)
    /\ feed = IdleFeed
    /\ ivStore \in Vectors \cup {NoVector}
    /\ iv = [u \in Users |-> u = "u1" /\ ivStore # NoVector]
    /\ vindex = <<>>
    /\ seenStore = <<>>
    /\ impressions = <<>>
    /\ ingested = 0
    /\ nrequests = 0
    /\ nrecords = 0
    /\ stage1 = [r \in 1..MaxViewRequests |-> IdleStage1]
    /\ InitRestIdle

SpecVector == InitVector /\ [][NextVector]_vars

(***************************************************************************)
(* SpecPosts: POST /posts.  Each create_post request runs on a session of   *)
(* its own (get_db): the handler writes the row inside the transaction,     *)
(* publishes the new-posts event and returns; get_db commits after the      *)
(* handler has returned and rolls back when the handler or the commit       *)
(* raises.  A consumer of the topic reads the events in order.              *)
(***************************************************************************)
NoPostsEffect ==
    UNCHANGED <<mailboxVars, clientVars, fanoutVars, feed, iv, vindex, seenStore,
                impressions, ingested, nrequests, nrecords, vectorVars, likeVars,
                recordStatus, embedVars, followStatus>>

\* db.get(User), db.add(post), flush, refresh: the row is written inside the
\* session's transaction.
CreateFlush(s) ==
    /\ creates[s].pc = "idle"
    /\ creates' = [creates EXCEPT ![s].pc = "flushed"]
    /\ UNCHANGED <<postsTable, newPosts, observed>>
    /\ NoPostsEffect

\* The author has no users row (404), or the flush, set_post_features or
\* send_and_wait raises: the exception reaches get_db, which rolls back.
\* No event has been sent.
CreateFail(s) ==
    /\ creates[s].pc \in {"idle", "flushed"}
    /\ creates' = [creates EXCEPT ![s].pc = "rolledback"]
    /\ UNCHANGED <<postsTable, newPosts, observed>>
    /\ NoPostsEffect

\* await publish_new_post(...): send_and_wait returns when the brokers have
\* acknowledged the event.
PublishNewPost(s) ==
    /\ creates[s].pc = "flushed"
    /\ newPosts' = Append(newPosts, s)
    /\ creates' = [creates EXCEPT ![s].pc = "published"]
    /\ UNCHANGED <<postsTable, observed>>
    /\ NoPostsEffect

\* The handler returns and get_db runs session.commit().
Commit(s) ==
    /\ creates[s].pc = "published"
    /\ postsTable' = postsTable \cup {s}
    /\ creates' = [creates EXCEPT ![s].pc = "committed"]
    /\ UNCHANGED <<newPosts, observed>>
    /\ NoPostsEffect

\* _build_post_response or session.commit() raises after the event has been
\* sent: get_db rolls the transaction back.
CommitFail(s) ==
    /\ creates[s].pc = "published"
    /\ creates' = [creates EXCEPT ![s].pc = "rolledback"]
    /\ UNCHANGED <<postsTable, newPosts, observed>>
    /\ NoPostsEffect

\* A consumer of new-posts reads the next event; it finds the row or not.
ObserveNewPost ==
    /\ Len(observed) < Len(newPosts)
    /\ LET post_id == newPosts[Len(observed) + 1]
       IN  observed' = Append(observed, [post_id |-> post_id,
                                         persisted |-> post_id \in postsTable])
    /\ UNCHANGED <<postsTable, creates, newPosts>>
    /\ NoPostsEffect

NextPosts ==
    \/ \E s \in 1..MaxCreates : CreateFlush(s)
    \/ \E s \in 1..MaxCreates : CreateFail(s)
    \/ \E s \in 1..MaxCreates : PublishNewPost(s)
    \/ \E s \in 1..MaxCreates : Commit(s)
    \/ \E s \in 1..MaxCreates : CommitFail(s)
    \/ ObserveNewPost

InitPosts ==
    /\ InitMailbox
    /\ InitClients
    /\ InitWorker(<<>>)
    /\ InitFeedIdle

SpecPosts == InitPosts /\ [][NextPosts]_vars

\* C34: an event of the new-posts topic that a consumer reads is the event of
\* a committed posts row, and no event is in the topic for a request whose
\* transaction was rolled back.
C34_EventAfterPersist ==
    /\ \A i \in 1..Len(observed) : observed[i].persisted
    /\ \A i \in 1..Len(newPosts) : creates[newPosts[i]].pc # "rolledback"

(***************************************************************************)
(* SpecLikes: POST /posts/{id}/like of one existing post.  Each request     *)
(* runs on a session of its own; the reads of a transaction see the rows    *)
(* committed when it started, and get_db commits after the handler has      *)
(* returned.                                                                *)
(***************************************************************************)
Likers == {"u1", "u2"}

NoLikesEffect ==
    UNCHANGED <<mailboxVars, clientVars, fanoutVars, feed, iv, vindex, seenStore,
                impressions, ingested, nrequests, nrecords, vectorVars, postVars,
                recordStatus, embedVars, followStatus>>

\* post = await db.get(Post, post_id); existing = select(Like).where(...)
LikeRead(r, user_id) ==
    /\ likes[r].pc = "idle"
    /\ likes' = [likes EXCEPT ![r] = [pc |-> "read", user_id |-> user_id,
                                      like_count |-> like_count,
                                      existing |-> user_id \in likesTable]]
    /\ UNCHANGED <<likesTable, like_count>>
    /\ NoLikesEffect

\* if existing.scalar_one_or_none(): return  -- nothing is written.
LikeExisting(r) ==
    /\ likes[r].pc = "read"
    /\ likes[r].existing
    /\ likes' = [likes EXCEPT ![r].pc = "done"]
    /\ UNCHANGED <<likesTable, like_count>>
    /\ NoLikesEffect

\* db.add(Like(...)); post.like_count += 1; the handler returns and get_db
\* commits: the flush inserts the likes row and writes the like_count the
\* session computed from the value it read.  A likes row with the same key
\* committed in the meantime fails the insert, and the request is rolled
\* back.
LikeCommit(r) ==
    /\ likes[r].pc = "read"
    /\ ~likes[r].existing
    /\ IF likes[r].user_id \in likesTable
       THEN /\ likes' = [likes EXCEPT ![r].pc = "failed"]
            /\ UNCHANGED <<likesTable, like_count>>
       ELSE /\ likesTable' = likesTable \cup {likes[r].user_id}
            /\ like_count' = likes[r].like_count + 1
            /\ likes' = [likes EXCEPT ![r].pc = "done"]
    /\ NoLikesEffect

\* The store refuses the commit of a transaction whose posts row was written
\* after the transaction started (an optimistic transaction), or
\* set_post_features raises: get_db rolls back.
LikeFail(r) ==
    /\ likes[r].pc = "read"
    /\ ~likes[r].existing
    /\ likes' = [likes EXCEPT ![r].pc = "failed"]
    /\ UNCHANGED <<likesTable, like_count>>
    /\ NoLikesEffect

NextLikes ==
    \/ \E r \in 1..MaxLikes, user_id \in Likers : LikeRead(r, user_id)
    \/ \E r \in 1..MaxLikes : LikeExisting(r)
    \/ \E r \in 1..MaxLikes : LikeCommit(r)
    \/ \E r \in 1..MaxLikes : LikeFail(r)

InitLikes ==
    /\ InitMailbox
    /\ InitClients
    /\ InitWorker(<<>>)
    /\ InitFeedIdle

SpecLikes == InitLikes /\ [][NextLikes]_vars

\* C35: the like_count of the post is the number of distinct users whose like
\* is stored, after any interleaving of like_post requests.
C35_LikeCountExact == like_count = Cardinality(likesTable)

(***************************************************************************)
(* SpecEmbed: the embedding worker.  It consumes the new-posts topic in a   *)
(* consumer group of its own, so it is handed every event of the topic,     *)
(* whatever the fan-out worker does with it.                                *)
(***************************************************************************)
NoEmbedEffect ==
    UNCHANGED <<mailboxVars, clientVars, fanoutVars, feed, iv, vindex, seenStore,
                impressions, ingested, nrequests, nrecords, vectorVars, postVars,
                likeVars, recordStatus, followStatus>>

\* PointStruct(id=post_id, ..., payload={"user_id": user_id, ...})
Point(e) == [post_id |-> e.post_id, user_id |-> e.user_id]

\* async for msg in consumer: the next message; process_message returns at
\* once when post_id or user_id is missing.
EmbedFetch ==
    /\ embedder.pc = "waiting"
    /\ embedder.pos <= Len(topic)
    /\ embedder' = [embedder EXCEPT !.pos = @ + 1, !.off = embedder.pos,
                                    !.pc = IF WellFormed(topic[embedder.pos])
                                           THEN "embed" ELSE "waiting"]
    /\ UNCHANGED points
    /\ NoEmbedEffect

\* embed_text in the executor, then qdrant.upsert of the point.
EmbedUpsert ==
    /\ embedder.pc = "embed"
    /\ points' = points \cup {Point(topic[embedder.off])}
    /\ embedder' = [embedder EXCEPT !.pc = "waiting"]
    /\ NoEmbedEffect

\* qdrant.upsert (or the executor) raises: the consume loop catches the
\* exception, logs it and goes on to the next message.
EmbedFail ==
    /\ embedder.pc = "embed"
    /\ embedder.failures < MaxFailures
    /\ embedder' = [embedder EXCEPT !.pc = "waiting", !.failures = @ + 1]
    /\ UNCHANGED points
    /\ NoEmbedEffect

NextEmbed ==
    \/ EmbedFetch
    \/ EmbedUpsert
    \/ EmbedFail

InitEmbed ==
    /\ InitMailbox /\ InitClients /\ InitFeedIdle
    /\ \E t \in Topics : InitWorker(TopicOf(t))

\* The worker's loop is always scheduled again: a message that is there is
\* handed over, and a call it awaits returns or raises.
SpecEmbed == InitEmbed /\ [][NextEmbed]_vars /\ WF_vars(NextEmbed)

\* C37: every well-formed event of the topic, whatever the number of the
\* author's followers, eventually has its point (post_id, user_id) in the
\* vector collection.
C37_EveryPostEmbedded ==
    <>(\A off \in 1..Len(topic) :
            WellFormed(topic[off]) => Point(topic[off]) \in points)

(***************************************************************************)
(* SpecOwn: from the follow graph to the response.  follow_user builds the  *)
(* graph, the fan-out worker distributes the posts of the topic to the      *)
(* followers the graph holds at that moment, and a viewer asks for the      *)
(* feed at any time in between.                                             *)
(***************************************************************************)
\* The self check is missing.
FollowUser_noself(follower_id, followee_id) ==
    /\ IF ~UserExists(follower_id) \/ ~UserExists(followee_id)
       THEN followStatus' = 404 /\ UNCHANGED follows
       ELSE /\ followStatus' = 204
            /\ follows' = [follows EXCEPT ![followee_id] = @ \cup {follower_id}]
    /\ UNCHANGED <<mailboxVars, clientVars, topic, clock, wpos, committed,
                   worker, pending, done, nwrites, fetched, fanned, restarts, failures>>
    /\ UNCHANGED <<feed, iv, vindex, seenStore, impressions, ingested, nrequests, nrecords,
                   vectorVars, postVars, likeVars, recordStatus, embedVars>>

\* follow_user: 400 for a self-follow, 404 for an unknown user, nothing to do
\* for an edge that exists; otherwise the edge is added (and committed by
\* get_db).
FollowUser(follower_id, followee_id) ==
    /\ IF follower_id = followee_id
       THEN followStatus' = 400 /\ UNCHANGED follows
       ELSE IF ~UserExists(follower_id) \/ ~UserExists(followee_id)
       THEN followStatus' = 404 /\ UNCHANGED follows
       ELSE /\ followStatus' = 204
            /\ follows' = [follows EXCEPT ![followee_id] = @ \cup {follower_id}]
    /\ UNCHANGED <<mailboxVars, clientVars, topic, clock, wpos, committed,
                   worker, pending, done, nwrites, fetched, fanned, restarts, failures>>
    /\ UNCHANGED <<feed, iv, vindex, seenStore, impressions, ingested, nrequests, nrecords,
                   vectorVars, postVars, likeVars, recordStatus, embedVars>>

\* The users who send follow requests, and an id with no users row.
OwnUsers == {"u1", "u3", NoSuchUser}

\* The new-posts topic: create_post publishes each post with its author.
OwnTopic == [i \in 1..MaxEvents |-> Event(i, PostAuthor(i))]

\* The vector index holds published posts, the viewer's own among them.
OwnIndexContents ==
    {s \in IndexContents : \A i \in 1..Len(s) : s[i] \in 1..MaxEvents}

NextOwn ==
    \/ \E follower_id, followee_id \in OwnUsers : FollowUser(follower_id, followee_id)
    \/ Fetch
    \/ \E followers \in SUBSET Users : Lookup(followers)
    \/ \E t \in pending : PushOk(t)
    \/ StartRequest("u1")
    \/ InterestVector
    \/ Retrieve
    \/ ImpressionDiscount
    \/ FeastFeatures(FALSE, {})
    \/ \E sc \in [FeedPosts -> RankScores] : Rank(sc)
    \/ \E post_map \in SUBSET FeedPosts : Hydrate(post_map)
    \/ \E sent \in 0..feed_page_size : PublishImpressions(sent)

\* Nobody follows anybody, no post has been fanned out.
InitOwn ==
    /\ InitMailbox
    /\ InitClients
    /\ follows = [a \in Users |-> {}]
    /\ topic = OwnTopic
    /\ clock = 0
    /\ wpos = 1
    /\ committed = 1
    /\ worker = [pc |-> "waiting", off |-> 0, score |-> 0]
    /\ pending = {}
    /\ done = <<>>
    /\ nwrites = 0
    /\ fetched = <<>>
    /\ fanned = {}
    /\ restarts = 0
    /\ failures = 0
    /\ feed = IdleFeed
    /\ iv = [u \in Users |-> FALSE]
    /\ vindex \in OwnIndexContents
    /\ seenStore = <<>>
    /\ impressions = <<>>
    /\ ingested = 0
    /\ nrequests = 0
    /\ nrecords = 0
    /\ InitVectorIdle
    /\ InitRestIdle

SpecOwn == InitOwn /\ [][NextOwn]_vars

\* C39: no post of a feed response was written by the viewer the response
\* is for.
C39_NoOwnPosts ==
    feed.status = 200 =>
        \A i \in 1..Len(feed.posts) : PostAuthor(feed.posts[i].post_id) # feed.user_id

\* The viewer's own post is in the vector index and has been fanned out to a
\* follower of the viewer, a self-follow of the viewer has been refused, and
\* the viewer is served posts of the mailbox.
C39_Witness ==
    /\ feed.status = 200
    /\ feed.user_id = "u1"
    /\ feed.posts # <<>>
    /\ \E i \in 1..Len(vindex) : PostAuthor(vindex[i]) = "u1"
    /\ \E u \in Users : \E i \in 1..Len(mailbox[u]) :
            PostAuthor(mailbox[u][i].member) = "u1"
    /\ "u1" \notin follows["u1"]
    /\ "u1" \in follows["u3"]
    /\ \E i \in 1..Len(feed.posts) : feed.posts[i].source = "social"

\* C40: a ranked candidate with no row in the posts table is not in the
\* response and gets no impression event, and it takes no place on the page
\* and none of its author's places: a candidate with a row that is not
\* served was held back by the posts served before it alone.
C40_MissingRowSkipped ==
    feed.status = 200 =>
        LET top    == Take(feed.ranked, feed_page_size * 3)
            served == {feed.posts[i].post_id : i \in 1..Len(feed.posts)}
        IN  /\ served \subseteq feed.post_map
            /\ \A i \in 1..Len(impressions) : impressions[i].post_id \in feed.post_map
            /\ \A j \in 1..Len(top) :
                    (top[j].post_id \in feed.post_map /\ top[j].post_id \notin served) =>
                        LET before == {i \in 1..(j - 1) : top[i].post_id \in served}
                        IN  \/ Cardinality(before) >= feed_page_size
                            \/ Cardinality({i \in before :
                                    PostAuthor(top[i].post_id) = PostAuthor(top[j].post_id)})
                                    >= MAX_AUTHOR_POSTS

\* A candidate without a row is ranked before a served post of the same
\* author, and the served posts have their impression events.
C40_Witness ==
    /\ feed.status = 200
    /\ feed.pc = "done"
    /\ Len(impressions) = Len(feed.posts)
    /\ \E j, k \in 1..Len(feed.ranked) :
            /\ j < k
            /\ feed.ranked[j].post_id \notin feed.post_map
            /\ PostAuthor(feed.ranked[j].post_id) = PostAuthor(feed.ranked[k].post_id)
            /\ \E i \in 1..Len(feed.posts) : feed.posts[i].post_id = feed.ranked[k].post_id

\* C36: POST /feed/impressions is answered 204 whatever the outcome of the
\* publish: a failure of the topic is not returned as an error.
C36_RecordFireAndForget == recordStatus \in {0, 204}

\* C1: a request of a viewer with a users row that has been answered was
\* answered with the normal feed response (200), whatever dependency failed.
C1_FeedAlwaysReturned ==
    (feed.status # 0 /\ UserExists(feed.user_id)) => feed.status = 200

(***************************************************************************)
(* Properties of the feed pipeline.                                         *)
(***************************************************************************)
\* C11: the merged candidate list holds each PostId once, lists the social
\* ids first in their order, then the ids found only in the discovery list
\* in their order, and tags every id of the social list as social.
C11_MergeSocialFirst ==
    feed.pc = "filter" =>
        LET S    == feed.social_ids
            D    == feed.discovery_ids
            M    == feed.candidates
            only == SelectSeq(D, LAMBDA p : p \notin Elems(S))
        IN  /\ NoDuplicates(PostIds(M))
            /\ PostIds(M) = S \o only
            /\ \A i \in 1..Len(M) :
                    M[i].source = IF M[i].post_id \in Elems(S) THEN "social" ELSE "discovery"

\* The lists to merge collide on the best discovery match, and the discovery
\* list brings one more post.
C11_Witness ==
    /\ feed.pc = "filter"
    /\ Len(feed.social_ids) = 2
    /\ Len(feed.discovery_ids) = 2
    /\ feed.discovery_ids[1] = feed.social_ids[2]
    /\ feed.discovery_ids[2] \notin Elems(feed.social_ids)

\* C12: a failure of the mailbox read or of the vector search does not fail
\* the request: no exception leaves get_feed from the stage-1 retrieval, and
\* a request that went on after such a failure has an empty list for the
\* failed branch.
C12_RetrievalFailsSoftly ==
    /\ feed.raised # "retrieve"
    /\ (feed.pc \in {"filter", "features"} /\ "vector" \in feed.failed) =>
            feed.discovery_ids = <<>>

PastFilter ==
    \/ feed.pc \in {"features", "fallback", "rank", "hydrate", "publish"}
    \/ feed.raised \in {"fallback", "rank"}
    \/ feed.status = 200

PositionIn(cs, c) == CHOOSE i \in 1..Len(cs) : cs[i] = c

\* C14: the impression filter removes exactly the candidates whose post_id is
\* in the seen set and keeps the others in their order; its result is not
\* longer than its input and equals it when the seen set is empty.
C14_FilterExact ==
    PastFilter =>
        LET C    == MergeCandidates(feed.social_ids, feed.discovery_ids)
            K    == feed.kept
            seen == feed.seen_post_ids
        IN  /\ Elems(K) = {c \in Elems(C) : c.post_id \notin seen}
            /\ \A i, j \in 1..Len(K) : i < j => PositionIn(C, K[i]) < PositionIn(C, K[j])
            /\ Len(K) <= Len(C)
            /\ seen = {} => K = C

\* The filter removed a candidate from between two others that it kept.
C14_Witness ==
    /\ PastFilter
    /\ Len(feed.kept) >= 2
    /\ LET C == MergeCandidates(feed.social_ids, feed.discovery_ids)
       IN  \E i \in 2..(Len(C) - 1) : C[i].post_id \in feed.seen_post_ids

\* C15: no post of the seen set that the request got from the impression
\* store is in the posts of its response.
C15_SeenNotServed ==
    feed.status = 200 =>
        \A i \in 1..Len(feed.posts) : feed.posts[i].post_id \notin feed.seen_post_ids

\* A response with posts, of a request that had a seen post among its merged
\* candidates.
C15_Witness ==
    /\ feed.status = 200
    /\ feed.posts # <<>>
    /\ \E p \in feed.seen_post_ids :
            p \in Elems(feed.social_ids) \cup Elems(feed.discovery_ids)

\* C17: once the feature store call has failed and the feature cache has
\* answered, the feature source is "redis-fallback", and the request ends
\* with status 200 and at most feed_page_size posts.
C17_FeastFallback ==
    ("features" \in feed.failed /\ feed.raised # "fallback") =>
        /\ feed.pc # "fallback" => feed.feature_source = "redis-fallback"
        /\ feed.pc = "done" =>
                /\ feed.status = 200
                /\ Len(feed.posts) <= feed_page_size

C17_Witness ==
    /\ "features" \in feed.failed
    /\ feed.pc = "done"
    /\ feed.status = 200
    /\ feed.feature_source = "redis-fallback"
    /\ Len(feed.posts) = feed_page_size

\* C18: a request whose ranking call failed is not ended by the heuristic
\* scoring: it goes on to stage 4 and ends with status 200.
C18_RankingFallback ==
    "ranking" \in feed.failed =>
        /\ feed.raised # "rank"
        /\ feed.pc = "done" => feed.status = 200

\* The posts of the response written by an author.
PostsBy(author) ==
    {i \in 1..Len(feed.posts) : PostAuthor(feed.posts[i].post_id) = author}

\* C19: in every response, no author has more than MAX_AUTHOR_POSTS posts.
C19_DiversityCap ==
    feed.status = 200 =>
        \A p \in FeedPosts : Cardinality(PostsBy(PostAuthor(p))) <= MAX_AUTHOR_POSTS

\* A ranked post that has a row was left out of a page that is not full,
\* because its author already has MAX_AUTHOR_POSTS posts on the page.
C19_Witness ==
    /\ feed.status = 200
    /\ Len(feed.posts) < feed_page_size
    /\ \E i \in 1..Len(feed.ranked) :
            LET p == feed.ranked[i].post_id
            IN  /\ p \in feed.post_map
                /\ \A k \in 1..Len(feed.posts) : feed.posts[k].post_id # p
                /\ Cardinality(PostsBy(PostAuthor(p))) = MAX_AUTHOR_POSTS

\* C20: in every response, the number of posts is at most feed_page_size.
C20_PageSize ==
    feed.status = 200 => Len(feed.posts) <= feed_page_size

\* A ranked post that has a row, of an author with no post on the page, was
\* left out because the page was full.
C20_Witness ==
    /\ feed.status = 200
    /\ Len(feed.posts) = feed_page_size
    /\ \E i \in 1..Len(feed.ranked) :
            LET p == feed.ranked[i].post_id
            IN  /\ p \in feed.post_map
                /\ PostsBy(PostAuthor(p)) = {}

\* The place of a post in a list of candidates; 0 when it is not there.
IndexOfPost(cs, post_id) ==
    IF \E i \in 1..Len(cs) : cs[i].post_id = post_id
    THEN CHOOSE i \in 1..Len(cs) : cs[i].post_id = post_id
    ELSE 0

\* C21: the posts of a response are in non-increasing rank_score order, they
\* are a subsequence of the score-sorted candidate list, and each carries the
\* score that stage 3 attached to it.
C21_ResponseOrdered ==
    feed.status = 200 =>
        /\ \A i, j \in 1..Len(feed.posts) :
                i < j => /\ feed.posts[i].rank_score >= feed.posts[j].rank_score
                         /\ 0 < IndexOfPost(feed.ranked, feed.posts[i].post_id)
                         /\ IndexOfPost(feed.ranked, feed.posts[i].post_id)
                                < IndexOfPost(feed.ranked, feed.posts[j].post_id)
        /\ \A i \in 1..Len(feed.posts) :
                /\ IndexOfPost(feed.ranked, feed.posts[i].post_id) > 0
                /\ feed.posts[i].rank_score
                        = feed.ranked[IndexOfPost(feed.ranked, feed.posts[i].post_id)].rank_score
        /\ \A i, j \in 1..Len(feed.ranked) :
                i < j => feed.ranked[i].rank_score >= feed.ranked[j].rank_score

\* The sort moved a later candidate with a higher score in front of an
\* earlier one, and both are served.
C21_Witness ==
    /\ feed.status = 200
    /\ Len(feed.posts) = 2
    /\ feed.posts[1].rank_score > feed.posts[2].rank_score
    /\ IndexOfPost(feed.candidates, feed.posts[1].post_id)
            > IndexOfPost(feed.candidates, feed.posts[2].post_id)
    /\ IndexOfPost(feed.candidates, feed.posts[2].post_id) > 0

\* C22: in a response whose page is not full, every scored candidate whose
\* author has fewer than MAX_AUTHOR_POSTS posts on the page is on the page,
\* when every row the request asked for exists.
C22_NoStarvation ==
    (/\ feed.status = 200
     /\ feed.post_map = {feed.ranked[i].post_id :
                            i \in 1..Min(feed_page_size * 3, Len(feed.ranked))}
     /\ Len(feed.posts) < feed_page_size) =>
        \A i \in 1..Len(feed.ranked) :
            Cardinality(PostsBy(PostAuthor(feed.ranked[i].post_id))) < MAX_AUTHOR_POSTS
                => IndexOfPost(feed.posts, feed.ranked[i].post_id) > 0

\* C23: the step that answers 404 is the first step of the request of a
\* viewer without a users row: no local of any stage has been set (no vector,
\* no retrieval, no seen set, no features, no scores, no page), and the step
\* leaves the interest vectors, the mailboxes, the index, the impression
\* store and the impressions topic as they were.
C23_UnknownViewer404 ==
    [][(feed.status # 404 /\ feed'.status = 404) =>
            /\ feed.pc = "idle"
            /\ ~UserExists(feed'.user_id)
            /\ feed' = [IdleFeed EXCEPT !.pc = "done", !.user_id = feed'.user_id,
                                        !.status = 404]
            /\ UNCHANGED <<iv, vindex, seenStore, impressions, mailboxVars>>]_vars

C23_Witness ==
    /\ feed.status = 404
    /\ feed.user_id = NoSuchUser
    /\ feed.pc = "done"

\* The events the impression task has handed to the producer: the published
\* ones and, when a send raised, the one of that send.
Handed == Len(impressions) + (IF "topic" \in feed.failed THEN 1 ELSE 0)

\* C24: when the impression task of a response has ended, the producer has
\* been handed exactly one event per post of the response, in response
\* order, each with the viewer's id, the post's id and the timestamp of the
\* batch; a response with no post starts no task and hands over nothing.
C24_OneEventPerServedPost ==
    (feed.pc = "done" /\ feed.status = 200) =>
        /\ Handed = Len(feed.posts)
        /\ \A i \in 1..Len(impressions) :
                /\ impressions[i].user_id = feed.user_id
                /\ impressions[i].post_id = feed.posts[i].post_id
                /\ impressions[i].timestamp = impressions[1].timestamp

\* C25: the response is decided before the impression task runs (status 200
\* and the posts are set while the task is still to run), and no step of the
\* task, failed or not, changes the status or the posts of the response.
C25_PublishDetached ==
    [][feed.pc = "publish" =>
            /\ feed.status = 200
            /\ feed'.status = feed.status
            /\ feed'.posts = feed.posts
            /\ feed'.raised = feed.raised]_vars

\* The task failed after a response with posts.
C25_Witness ==
    /\ feed.pc = "done"
    /\ "topic" \in feed.failed
    /\ feed.status = 200
    /\ feed.posts # <<>>

\* C26: when the feature stage has ended, on the primary path and on the
\* fallback path, every candidate handed to the ranking stage has a
\* post_features entry, which may be empty.
C26_FeaturesComplete ==
    feed.pc = "rank" =>
        /\ feed.feature_source \in {"feast", "redis-fallback"}
        /\ DOMAIN feed.post_features = Elems(PostIds(feed.candidates))
        /\ \A p \in DOMAIN feed.post_features :
                feed.post_features[p] \in {"features", "empty"}

\* A candidate with an empty entry is handed to the ranking stage.
C26_Witness ==
    /\ feed.pc = "rank"
    /\ feed.feature_source = "redis-fallback"
    /\ Len(feed.candidates) >= 2
    /\ \E p, q \in DOMAIN feed.post_features :
            feed.post_features[p] = "empty" /\ feed.post_features[q] = "features"

\* C30: a request that is past stage 1's vector step finds its own vector
\* stored for the viewer, during its discovery search and after it, and no
\* step replaces a vector that is stored.
C30_VectorStoredOnce ==
    /\ [](\A r \in 1..MaxViewRequests :
            stage1[r].pc \in {"search", "done"} => ivStore = stage1[r].vector)
    /\ [][ivStore # NoVector => ivStore' = ivStore]_vars

\* C31: a request whose affinity call went wrong keeps the features of the
\* primary call (the source is "feast", the fallback is not entered) and has
\* affinity_score 0.0 on every candidate.
C31_AffinityBestEffort ==
    feed.affinity_error # "" =>
        /\ feed.feature_source = "feast"
        /\ "features" \notin feed.failed
        /\ \A p \in Elems(PostIds(feed.candidates)) : feed.affinity_score[p] = 0

\* C32: the candidates that reach the feature hydration and the ranking are
\* at most MAX_CANDIDATES, and they are the first entries of the filtered
\* merged list, in its order: the cap never drops a social candidate while
\* it keeps a discovery one.
C32_CapAfterFilter ==
    feed.pc \in {"features", "fallback", "rank"} =>
        /\ Len(feed.candidates) <= MAX_CANDIDATES
        /\ Len(feed.candidates) = Min(Len(feed.kept), MAX_CANDIDATES)
        /\ \A i \in 1..Len(feed.candidates) : feed.candidates[i] = feed.kept[i]
        /\ \A i \in 1..Len(feed.kept) :
                (i > Len(feed.candidates) /\ feed.kept[i].source = "social") =>
                    \A j \in 1..Len(feed.candidates) :
                        feed.candidates[j].source = "social"

\* A filtered list longer than the cap reaches the ranking cut to the cap.
C32_Witness ==
    /\ feed.pc = "rank"
    /\ Len(feed.kept) > MAX_CANDIDATES
    /\ Len(feed.candidates) = MAX_CANDIDATES

\* C33: every post of a response is one of the first 3 x feed_page_size
\* entries of the list sorted by rank_score.
C33_OnlyTopHydrated ==
    feed.status = 200 =>
        \A i \in 1..Len(feed.posts) :
            \E j \in 1..Min(Len(feed.ranked), feed_page_size * 3) :
                feed.ranked[j].post_id = feed.posts[i].post_id

\* A response with room left on the page, built from a ranked list that is
\* longer than 3 x feed_page_size.
C33_Witness ==
    /\ feed.status = 200
    /\ feed.posts # <<>>
    /\ Len(feed.posts) < feed_page_size
    /\ Len(feed.ranked) > feed_page_size * 3

\* The rows the impression store held for the viewer, inside the lookback
\* window, when the request asked for the seen set.
RowsInWindow ==
    {i \in 1..feed.query_rows :
        /\ seenStore[i].user_id = feed.user_id
        /\ seenStore[i].timestamp >= CutoffMs(feed.query_time, pinot_lookback_hours)}

\* C16: when a request got its seen set from the impression store without an
\* error, every post of an impression of the viewer that was published and
\* ingested before the query, inside the lookback window, is in the seen set
\* and is not in the posts of the response.
C16_ImpressionRoundTrip ==
    (PastFilter /\ "impressions" \notin feed.failed) =>
        \A i \in RowsInWindow :
            /\ seenStore[i].post_id \in feed.seen_post_ids
            /\ feed.status = 200 =>
                    \A k \in 1..Len(feed.posts) : feed.posts[k].post_id # seenStore[i].post_id

\* C27: the call that has just returned gave min(limit, mailbox size) post
\* ids, the members of the highest scores from the highest down (none when
\* the user has no mailbox), and the mailbox is as the call found it.
C27_TopReturnsHighest ==
    LET z == mailbox[FeedKey(lastRead.user)]
        r == lastRead.result
    IN  (lastRead # NoRead /\ ~lastRead.interleaved) =>
            /\ lastRead.before = z
            /\ Len(r) = Min(lastRead.limit, Len(z))
            /\ \A i \in 1..Len(r) : r[i] = z[Len(z) - i + 1].member

(***************************************************************************)
(* Properties of the mailbox.                                               *)
(***************************************************************************)
OpsOn(u) == {op \in PushOps : op[1] = u}

PostsPushedTo(u) == {p \in Posts : \E s \in Scores : issued[<<u, p, s>>] > 0}

\* C2: once the pushes on a user's mailbox have completed (none is in
\* flight), the mailbox holds at most redis_feed_max_size entries.
C2_MailboxBound ==
    \A u \in Users : InFlightOn(u) = {} => Len(mailbox[u]) <= redis_feed_max_size

\* More distinct posts than the mailbox may hold were pushed to a user, and
\* the pushes have completed.
C2_Witness ==
    \E u \in ActiveUsers :
        /\ InFlightOn(u) = {}
        /\ Cardinality(PostsPushedTo(u)) > redis_feed_max_size
        /\ Len(mailbox[u]) = redis_feed_max_size

\* The step issues push op = (u, p, s) and p is already in u's mailbox: no
\* entry is added, and p's entry carries the score of this push.
RepushUpdates ==
    \A op \in PushOps :
        (issued'[op] = issued[op] + 1 /\ op[2] \in Members(mailbox[op[1]])) =>
            /\ Len(mailbox'[op[1]]) <= Len(mailbox[op[1]])
            /\ Len(mailbox[op[1]]) <= redis_feed_max_size =>
                    op[2] \in Members(mailbox'[op[1]])
            /\ op[2] \in Members(mailbox'[op[1]]) =>
                    ScoreOf(mailbox'[op[1]], op[2]) = op[3]

\* C3: a PostId appears at most once in any mailbox, in every reachable
\* state; pushing a PostId that is already there adds no entry and replaces
\* its score by the score of the later push.
C3_MailboxUnique ==
    /\ [](\A u \in Users : Unique(mailbox[u]))
    /\ [][RepushUpdates]_vars

\* A post was pushed to a user with two different scores and is in the
\* mailbox with the second one.
C3_Witness ==
    \E u \in ActiveUsers, p \in Posts :
        /\ issued[<<u, p, 1>>] > 0 /\ issued[<<u, p, 2>>] > 0
        /\ p \in Members(mailbox[u])
        /\ Len(mailbox[u]) = redis_feed_max_size

\* C4: a get_social_feed call interleaved with a push on the same mailbox
\* returns what it would return before the push or after all of its steps,
\* and never more than redis_feed_max_size members.
C4_PushAtomicForReaders ==
    lastRead.interleaved =>
        /\ lastRead.result \in {Top(lastRead.before, lastRead.limit),
                                Top(lastRead.after, lastRead.limit)}
        /\ Len(lastRead.result) <= redis_feed_max_size

\* The mailboxes that the serial orders of the pushes in `bag` leave, each
\* push run alone and to completion (ZADD, then the trim) from mailbox z.
RECURSIVE SerialOutcomes(_, _, _)
SerialOutcomes(z, bag, ops) ==
    LET live == {op \in ops : bag[op] > 0}
    IN  IF live = {} THEN {z}
        ELSE UNION {SerialOutcomes(Trim(ZADD(z, op[2], op[3])),
                                   [bag EXCEPT ![op] = @ - 1], ops) : op \in live}

Serializable ==
    \A u \in ActiveUsers :
        InFlightOn(u) = {} => mailbox[u] \in SerialOutcomes(<<>>, issued, OpsOn(u))

\* A step changes a user's mailbox only by a command of a push on that user.
Independent ==
    \A u \in Users :
        mailbox'[u] # mailbox[u] =>
            \/ \E op \in OpsOn(u) : issued'[op] # issued[op]
            \/ \E i \in 1..MaxApiPush :
                    /\ apiPush[i].user = u
                    /\ apiPush[i].pc = "trim" /\ apiPush'[i].pc = "expire"

KeepsHighest(z, p, s, z2) ==
    LET U == {z[i] : i \in {j \in 1..Len(z) : z[j].member # p}} \cup {Entry(p, s)}
        K == {z2[i] : i \in 1..Len(z2)}
    IN  /\ K \subseteq U
        /\ Cardinality(K) = Min(redis_feed_max_size, Cardinality(U))
        /\ Len(z2) = Cardinality(K)
        /\ \A k \in K, e \in U \ K : Less(e, k)

\* A push of the worker: one step from the mailbox it finds to the one it
\* leaves.
WorkerPushKeepsHighest ==
    \A op \in PushOps :
        (/\ issued'[op] = issued[op] + 1
         /\ \A i \in 1..MaxApiPush : apiPush'[i].pc = apiPush[i].pc) =>
            KeepsHighest(mailbox[FeedKey(op[1])], op[2], op[3], mailbox'[FeedKey(op[1])])

\* A push of the API that was the only writer of the key from its ZADD to
\* its trim.
ApiPushKeepsHighest ==
    \A i \in 1..MaxApiPush :
        (apiPush[i].pc = "expire" /\ apiPush[i].alone) =>
            KeepsHighest(apiPush[i].pre, apiPush[i].post, apiPush[i].score,
                         mailbox[FeedKey(apiPush[i].user)])

\* C28: after a push, the mailbox holds exactly the redis_feed_max_size
\* highest-score members of its previous members with the pushed member
\* upserted: only the lowest are evicted, and a new member below all the
\* members of a full mailbox leaves the membership as it was.
C28_PushKeepsHighest == []ApiPushKeepsHighest /\ [][WorkerPushKeepsHighest]_vars

\* A new member with a score below all the members of a full mailbox has
\* been pushed, and the members are those of before.
C28_Witness ==
    \E i \in 1..MaxApiPush :
        /\ apiPush[i].pc = "expire" /\ apiPush[i].alone
        /\ Len(apiPush[i].pre) = redis_feed_max_size
        /\ apiPush[i].post \notin Members(apiPush[i].pre)
        /\ \A k \in 1..Len(apiPush[i].pre) : apiPush[i].pre[k].score > apiPush[i].score
        /\ Members(mailbox[FeedKey(apiPush[i].user)]) = Members(apiPush[i].pre)

\* The step is the return of a push on user u's mailbox: the pipeline of the
\* worker has executed, or the API's third command has answered.
PushCompletes(u) ==
    \/ /\ \E op \in OpsOn(u) : issued'[op] = issued[op] + 1
       /\ \A i \in 1..MaxApiPush : apiPush'[i].pc = apiPush[i].pc
    \/ \E i \in 1..MaxApiPush :
            /\ apiPush[i].user = u
            /\ apiPush[i].pc = "expire" /\ apiPush'[i].pc = "idle"

\* C29: every completed push leaves the user's mailbox with a remaining
\* lifetime of redis_feed_ttl; a mailbox is deleted only when the lifetime
\* its last refresh gave it has run out; a read leaves the lifetime as it is.
C29_SlidingTtl ==
    [][\A u \in ActiveUsers :
            /\ PushCompletes(u) => ttl'[FeedKey(u)] = redis_feed_ttl
            /\ (mailbox[FeedKey(u)] # <<>> /\ mailbox'[FeedKey(u)] = <<>>) =>
                    ttl[FeedKey(u)] = 1
            /\ lastRead' # lastRead /\ lastRead' # NoRead => ttl' = ttl]_vars

(***************************************************************************)
(* Properties of the fan-out worker.                                        *)
(***************************************************************************)
AuthorOf(off) == topic[off].user_id

PostOf(off) == topic[off].post_id

NumFollowers(off) == Cardinality(follows[AuthorOf(off)])

LastCycle == done[Len(done)]

\* C6: when the worker has finished a consume cycle (without an error) for
\* a well-formed event whose author has between 1 and fan_out_follower_cap
\* followers, every follower's mailbox contains the event's post_id.
C6_FanoutReachesFollowers ==
    (worker.pc = "waiting" /\ done # <<>>) =>
        LET off == LastCycle.off
        IN  ( /\ WellFormed(topic[off])
              /\ LastCycle.outcome # "error"
              /\ NumFollowers(off) >= 1
              /\ NumFollowers(off) <= fan_out_follower_cap ) =>
                \A f \in follows[AuthorOf(off)] : PostOf(off) \in Members(mailbox[f])

CycleFailed == \E i \in 1..Len(done) : done[i].outcome = "error"

\* The consumer has handed every event of the topic to process_message and
\* the worker is waiting for the next one.
Drained ==
    /\ wpos > Len(topic)
    /\ worker.pc = "waiting"
    /\ \A off \in 1..Len(topic) : \E j \in 1..Len(fetched) : fetched[j] = off

\* C38: once processing an event has failed, the worker still consumes and
\* processes every later event of the topic: the exception does not stop
\* the consume loop.
C38_WorkerSurvivesFailure == CycleFailed ~> Drained

\* After a cycle that failed, a later event has been fanned out to the end.
C38_Witness ==
    \E i, j \in 1..Len(done) :
        /\ i < j
        /\ done[i].outcome = "error"
        /\ done[j].off > done[i].off
        /\ done[j].outcome = "fanout"

\* C8: an offset is committed only after every push of its event has
\* succeeded: each event below the committed offset has a cycle that
\* finished without an error.
C8_CommitAfterSuccess ==
    \A off \in 1..(committed - 1) :
        \E i \in 1..Len(done) : done[i].off = off /\ done[i].outcome # "error"

\* The last two cycles fanned the same event out, both to the end, and the
\* worker wrote nothing else since the first of them finished.
Redelivered ==
    /\ worker.pc = "waiting"
    /\ pending = {}
    /\ Len(done) >= 2
    /\ done[Len(done) - 1].off = LastCycle.off
    /\ done[Len(done) - 1].outcome = "fanout"
    /\ LastCycle.outcome = "fanout"
    /\ LastCycle.nw = done[Len(done) - 1].nw + NumFollowers(LastCycle.off)
    /\ nwrites = LastCycle.nw

\* C9: processing the same event twice in succession leaves every mailbox
\* with the PostIds it held after the first processing; only the score of
\* the redelivered post changes.
C9_RedeliveryIdempotent ==
    Redelivered =>
        LET first == done[Len(done) - 1].snap
            p     == PostOf(LastCycle.off)
        IN  \A u \in Users :
                /\ Members(mailbox[u]) = Members(first[u])
                /\ Len(mailbox[u]) = Len(first[u])
                /\ \A q \in Members(mailbox[u]) \ {p} :
                        ScoreOf(mailbox[u], q) = ScoreOf(first[u], q)

\* An event was fanned out twice in succession to a mailbox that was full,
\* and the second delivery raised the post's score.
C9_Witness ==
    /\ Redelivered
    /\ \E u \in follows[AuthorOf(LastCycle.off)] :
            /\ Len(mailbox[u]) = redis_feed_max_size
            /\ ScoreOf(mailbox[u], PostOf(LastCycle.off)) >
                    ScoreOf(done[Len(done) - 1].snap[u], PostOf(LastCycle.off))

\* Every time the consumer yielded offset i, it had not yet yielded offset j.
ConsumedInOrder(i, j) ==
    \A x, y \in 1..Len(fetched) : (fetched[x] = i /\ fetched[y] = j) => x < y

\* C10: of two events of one author consumed in publish order, the earlier
\* post's score is not greater than the later post's score in every mailbox
\* that holds both.
C10_PublishOrderKept ==
    \A i, j \in 1..Len(topic) :
        ( /\ i < j
          /\ WellFormed(topic[i]) /\ WellFormed(topic[j])
          /\ AuthorOf(i) = AuthorOf(j)
          /\ ConsumedInOrder(i, j) ) =>
            \A u \in Users :
                {PostOf(i), PostOf(j)} \subseteq Members(mailbox[u]) =>
                    ScoreOf(mailbox[u], PostOf(i)) <= ScoreOf(mailbox[u], PostOf(j))

\* A mailbox holds two posts of one author, both consumed in publish order,
\* the earlier one delivered twice.
C10_Witness ==
    \E i, j \in 1..Len(topic) :
        /\ i < j
        /\ AuthorOf(i) = AuthorOf(j)
        /\ ConsumedInOrder(i, j)
        /\ Cardinality({x \in 1..Len(fetched) : fetched[x] = i}) = 2
        /\ \E u \in Users :
                /\ {PostOf(i), PostOf(j)} \subseteq Members(mailbox[u])
                /\ ScoreOf(mailbox[u], PostOf(i)) < ScoreOf(mailbox[u], PostOf(j))

====
